---- MODULE Spec2Model ----
(***************************************************************************)
(* Model of the video evaluation service: perceptual fingerprints, the     *)
(* duplicate-detection gates, the Redis/Postgres feature store, the budget *)
(* guardrails and EvaluateService.evaluate.                                *)
(*                                                                         *)
(* Conventions                                                             *)
(*  - a Python Optional is a sequence of length 0 (None) or 1 (a value);   *)
(*  - a frame is abstracted to its 64-bit dHash, a video to the sequence   *)
(*    of the dHashes of its frames, one per second of play time;           *)
(*  - percentages are integers in hundredths of a percent (95.0 = 9500);   *)
(*  - USD amounts are integers in cents (0.02 = 2, 5.0 = 500).             *)
(***************************************************************************)
EXTENDS Integers, Sequences, FiniteSets, TLC

(* ------------------------------ bounds --------------------------------- *)
NumUrls == 4
NumCampaigns == 1
MaxReqs == 2
MaxCands == 2
(* the concurrent workload: requests in flight together *)
ConcSlots == 2
ConcUrls == 1
ConcCampaigns == 2
ConcCands == 1
ConcReqs == 2
(* the cleaner on its own: campaigns and videos in the durable tier, sweeps run *)
SweepCampaigns == 3
SweepUrls == 3
MaxSweeps == 2

(* direct calls of similarity_percent: every fingerprint of up to ProbeBits bits,
   and 64-bit fingerprints with up to ProbeFlips bits set *)
ProbeBits == 3
ProbeFlips == 13

(* direct calls of sequence_match_percent: sequences of up to SeqProbeLen frames *)
SeqProbeLen == 3

(* direct calls of video_fingerprint: videos of up to FpProbeLen seconds, sampled
   with max_frames up to FpProbeMaxFrames *)
FpProbeLen == 4
FpProbeMaxFrames == 3

URLS == 1..NumUrls
CAMPAIGNS == 1..NumCampaigns

(* --------------------------- program constants ------------------------- *)
HashBits == 64
HASH_DUP_THRESHOLD == 9500
SEQ_DUP_THRESHOLD == 8500
USD_DAY_CAP == 500
MAX_LLM_CALLS == 50
MAX_EMB_CALLS == 200
EST_USD == 2
BIT_TOLERANCE == 5
WINDOW == 2
FP_INTERVAL == 5
FP_MAX_FRAMES == 20
SEQ_INTERVAL == 2
SEQ_MAX_FRAMES == 60
RECENT_K == 50

(* ------------------------------ helpers -------------------------------- *)
None == <<>>
Some(x) == <<x>>
IsNone(o) == Len(o) = 0
Val(o) == o[1]

Min(a, b) == IF a < b THEN a ELSE b
Max(a, b) == IF a > b THEN a ELSE b

RECURSIVE SumTo(_, _)
SumTo(f, n) == IF n = 0 THEN 0 ELSE f[n] + SumTo(f, n - 1)

Range(s) == {s[i] : i \in 1..Len(s)}

(* mutant: the value cut to two decimals instead of rounded *)
Round2Truncates(num, den) == (10000 * num) \div den

(* round(x, 2) of the exact value 100*num/den, in hundredths, ties to even *)
Round2(num, den) ==
    LET q == (10000 * num) \div den
        r == (10000 * num) % den
    IN  IF 2 * r > den THEN q + 1
        ELSE IF 2 * r = den THEN q + (q % 2)
        ELSE q

(* --------------------------- cv/phash.py ------------------------------- *)
_hamming(a, b) == Cardinality({i \in 1..Len(a) : a[i] # b[i]})

(* frames read at t = 0, interval, 2*interval, ... while a frame exists *)
SampleCount(video, interval, max_frames) ==
    Min(max_frames, (Len(video) + interval - 1) \div interval)

SampledFrames(video, interval, max_frames) ==
    [k \in 1..SampleCount(video, interval, max_frames) |-> video[(k - 1) * interval + 1]]

(* mutant: a bit needs a strict majority of the sampled frames *)
video_fingerprint_strict_majority(video, interval, max_frames) ==
    LET hashes == SampledFrames(video, interval, max_frames)
        n == Len(hashes)
    IN  IF n = 0 THEN None
        ELSE Some([i \in 1..HashBits |->
                 IF 2 * SumTo([k \in 1..n |-> hashes[k][i]], n) > n THEN 1 ELSE 0])

video_fingerprint(video, interval, max_frames) ==
    LET hashes == SampledFrames(video, interval, max_frames)
        n == Len(hashes)
    IN  IF n = 0 THEN None
        ELSE Some([i \in 1..HashBits |->
                 IF 2 * SumTo([k \in 1..n |-> hashes[k][i]], n) >= n THEN 1 ELSE 0])

(* mutant: the Hamming percentage itself, without the "1 -" *)
similarity_percent_is_distance(fp1, fp2) ==
    IF IsNone(fp1) \/ IsNone(fp2) THEN 0
    ELSE LET n == Min(Len(Val(fp1)), Len(Val(fp2)))
             a == SubSeq(Val(fp1), 1, n)
             b == SubSeq(Val(fp2), 1, n)
         IN  Round2(_hamming(a, b), n)

(* mutant: the distance divided by the length of the first argument as passed,
   not by the common length *)
similarity_percent_over_first_length(fp1, fp2) ==
    IF IsNone(fp1) \/ IsNone(fp2) THEN 0
    ELSE LET n == Min(Len(Val(fp1)), Len(Val(fp2)))
             a == SubSeq(Val(fp1), 1, n)
             b == SubSeq(Val(fp2), 1, n)
             d == _hamming(a, b)
         IN  Round2(Max(Len(Val(fp1)) - d, 0), Len(Val(fp1)))

similarity_percent(fp1, fp2) ==
    IF IsNone(fp1) \/ IsNone(fp2) THEN 0
    ELSE LET n == Min(Len(Val(fp1)), Len(Val(fp2)))
             a == SubSeq(Val(fp1), 1, n)
             b == SubSeq(Val(fp2), 1, n)
         IN  Round2(n - _hamming(a, b), n)

(* --------------------------- cv/sequence.py ---------------------------- *)
frame_hash_sequence(video, interval, max_frames) ==
    SampledFrames(video, interval, max_frames)

get_duration_s(video) == Len(video)

(* mutant: a window that falls outside seqB counts as distance 0 *)
BestDistEmptyIsZero(hA, seqB, start, end) ==
    LET ds == {_hamming(hA, seqB[j]) : j \in start..end}
    IN  IF ds = {} THEN 0 ELSE CHOOSE d \in ds : \A e \in ds : d <= e

BestDist(hA, seqB, start, end) ==
    LET ds == {_hamming(hA, seqB[j]) : j \in start..end}
    IN  IF ds = {} THEN 65 ELSE CHOOSE d \in ds : \A e \in ds : d <= e

(* mutant: an empty sequence counts as a full match instead of 0.0 *)
sequence_match_percent_empty_matches(seqA, seqB, bit_tolerance, window) ==
    IF Len(seqA) = 0 \/ Len(seqB) = 0 THEN Round2(1, 1)
    ELSE LET matched == {i \in 1..Len(seqA) :
                 BestDist(seqA[i], seqB, Max(1, i - window), Min(Len(seqB), i + window))
                     <= bit_tolerance}
         IN  Round2(Cardinality(matched), Len(seqA))

sequence_match_percent(seqA, seqB, bit_tolerance, window) ==
    IF Len(seqA) = 0 \/ Len(seqB) = 0 THEN 0
    ELSE LET matched == {i \in 1..Len(seqA) :
                 BestDist(seqA[i], seqB, Max(1, i - window), Min(Len(seqB), i + window))
                     <= bit_tolerance}
         IN  Round2(Cardinality(matched), Len(seqA))

(* --------------------------- bitpack.py -------------------------------- *)
Pow2(k) == CASE k = 0 -> 1 [] k = 1 -> 2 [] k = 2 -> 4 [] k = 3 -> 8
             [] k = 4 -> 16 [] k = 5 -> 32 [] k = 6 -> 64 [] k = 7 -> 128

(* np.packbits(..., bitorder="big"): zero-padded to whole bytes *)
PackBits(bits) ==
    LET n == Len(bits)
        bit(k) == IF k <= n THEN bits[k] ELSE 0
    IN  [j \in 1..((n + 7) \div 8) |->
            SumTo([b \in 1..8 |-> bit(8 * (j - 1) + b) * Pow2(8 - b)], 8)]

(* np.unpackbits(..., bitorder="big") *)
UnpackBits(data) ==
    [k \in 1..(8 * Len(data)) |->
        (data[((k - 1) \div 8) + 1] \div Pow2(7 - ((k - 1) % 8))) % 2]

Flatten(mat) ==
    IF Len(mat) = 0 THEN <<>>
    ELSE LET cols == Len(mat[1])
         IN  [k \in 1..(Len(mat) * cols) |-> mat[((k - 1) \div cols) + 1][((k - 1) % cols) + 1]]

(* ------------------------------ the world ------------------------------ *)
(* dHash of a frame whose first k horizontal gradients are positive *)
Frame(k) == [i \in 1..HashBits |-> IF i <= k THEN 1 ELSE 0]

(* VideoA: three seconds of one scene.  VideoB: the same scene re-encoded (4 bits
   off per frame) followed by a different scene.  VideoCorrupt: no decodable frame. *)
VideoA == <<Frame(0), Frame(0), Frame(0)>>
VideoB == <<Frame(4), Frame(4), Frame(4), Frame(4), Frame(13)>>
VideoCorrupt == <<>>

(* what each URL serves: URLs 1 and 2 serve byte-identical files, and so do 4 and 5 *)
Catalog == <<VideoA, VideoA, VideoB, VideoCorrupt, VideoCorrupt>>
VideoAt(u) == Catalog[((u - 1) % Len(Catalog)) + 1]

(* what OpenCV decodes from each catalogued file, computed once *)
Decoded ==
    [k \in 1..Len(Catalog) |->
        [fp  |-> video_fingerprint(Catalog[k], FP_INTERVAL, FP_MAX_FRAMES),
         seq |-> frame_hash_sequence(Catalog[k], SEQ_INTERVAL, SEQ_MAX_FRAMES)]]
DecodedAt(u) == Decoded[((u - 1) % Len(Catalog)) + 1]

(* PackBits and UnpackBits tabulated on the bit vectors the catalogue gives rise to;
   any other argument is computed directly *)
KnownBits ==
    {Val(Decoded[k].fp) : k \in {j \in 1..Len(Catalog) : ~IsNone(Decoded[j].fp)}}
        \cup {Flatten(Decoded[k].seq) : k \in 1..Len(Catalog)}
PackTable == [b \in KnownBits |-> PackBits(b)]
KnownBytes == {PackTable[b] : b \in KnownBits}
UnpackTable == [d \in KnownBytes |-> UnpackBits(d)]

Packed(bits) == IF bits \in KnownBits THEN PackTable[bits] ELSE PackBits(bits)
Unpacked(data) == IF data \in KnownBytes THEN UnpackTable[data] ELSE UnpackBits(data)

pack_phash64(bits_u8) == Packed(bits_u8)

unpack_phash64(data) ==
    LET bits == Unpacked(data) IN SubSeq(bits, 1, Min(64, Len(bits)))

pack_bool_bits(mat_bool) == Packed(Flatten(mat_bool))

unpack_bool_bits(data, rows, cols) ==
    LET bits == Unpacked(data)
    IN  [r \in 1..rows |-> [c \in 1..cols |-> bits[(r - 1) * cols + c]]]

(* hashlib.sha1(url).hexdigest(): an injective key derived from the URL *)
sha1(u) == 1000 + u

(* ------------------------------- state --------------------------------- *)
VARIABLES
    settings,           \* Settings: PG_ENABLED, BUDGET_GUARDRAILS_ENABLED, AUDIO_ASR_ENABLED
    r_features,         \* Redis video:{video_id}:features, a map video_id -> hash
    r_url2vid,          \* Redis campaign:{c}:url2vid, per campaign a map sha1(url) -> video_id
    r_vids,             \* Redis campaign:{c}:vids, per campaign the video_ids newest first
    r_cost,             \* Redis cost:{c}:day:{day}, per campaign the counters usd, llm, emb
    pg_video_features,  \* Postgres table video_features, a set of rows
    pg_campaign_retention,  \* Postgres table campaign_retention, per campaign its end_date
    kf_dirs,            \* KEYFRAMES_DIR: the video_ids that have a keyframe directory
    cleaner,            \* the RetentionCleaner task: its position and the locals of its sweep
    req,                \* per slot: the locals of one evaluate() call, its response and its trace
    nreq,               \* number of requests started (of guardrail calls, in SpecBudget)
    decision,           \* the last answer of a direct BudgetGuardrails.decide call
    probe               \* the arguments and results of a direct call of a cv/ function

vars == <<settings, r_features, r_url2vid, r_vids, r_cost, pg_video_features,
          pg_campaign_retention, kf_dirs, cleaner, req, nreq, decision, probe>>

stores == <<r_features, r_url2vid, r_vids, r_cost, pg_video_features>>

Ev(e, a) == [ev |-> e, arg |-> a]

HasEv(lg, e) == \E k \in 1..Len(lg) : lg[k].ev = e
CountEv(lg, e) == Cardinality({k \in 1..Len(lg) : lg[k].ev = e})

ZeroCost == [llm_calls |-> 0, embedding_calls |-> 0, transcription_seconds |-> 0,
             degraded_path |-> FALSE]

NoResp == [kind |-> "none", duplicated |-> FALSE, duplicate_reason |-> "null",
           duplicate_candidate_url |-> None, alignment |-> None, cost |-> ZeroCost]

ErrorResp == [NoResp EXCEPT !.kind = "error"]

EvaluateResponse(dup, reason, cand, alignment, cost) ==
    [kind |-> "response", duplicated |-> dup, duplicate_reason |-> reason,
     duplicate_candidate_url |-> cand, alignment |-> alignment, cost |-> cost]

AlignmentResult(aproved, match_percent, reasons) ==
    [aproved |-> aproved, match_percent |-> match_percent, reasons |-> reasons]

(* mutant: a duplicate reported with a reason no gate of this orchestrator has *)
DupResponseSemantic(reason, u) == EvaluateResponse(TRUE, "SEMANTIC", Some(u), None, ZeroCost)

DupResponse(reason, u) == EvaluateResponse(TRUE, reason, Some(u), None, ZeroCost)

NoJson == [kind |-> "none", aproved |-> FALSE, match_percent |-> 0]

IdleReq ==
    [pc |-> "idle", campaign_id |-> 0, video_url |-> 0, candidates |-> <<>>, i |-> 1,
     cached_base |-> None, base_fp |-> None, base_seq |-> None, base_path |-> None,
     frames_b64 |-> <<>>, transcript_text |-> None, summary |-> None, llm_calls |-> 0,
     cmp_json |-> NoJson, video_id |-> None, resp |-> NoResp, log |-> <<>>, tmp |-> FALSE]

(* evaluate_service.py 74-83, 110-114: guard built, temp dir made, locals unset *)
NewReq(c, u, cs) ==
    [IdleReq EXCEPT !.pc = "lookup", !.campaign_id = c, !.video_url = u,
                    !.candidates = cs, !.tmp = TRUE]

(* a return or a raise: the finally clause removes the temp dir *)
Finish(q, resp) == [q EXCEPT !.pc = "done", !.resp = resp, !.tmp = FALSE]

(* mutant: the temp dir removed on the return paths only, not in a finally clause *)
RaiseWithoutFinally(q) == [q EXCEPT !.pc = "done", !.resp = ErrorResp]

Raise(q) == Finish(q, ErrorResp)

(* --------------------------- redisdb/indices.py ------------------------ *)
(* 46-54: the fields of the hash video:{video_id}:features *)
FeatureHash(u, fp, seq, dur) ==
    [url |-> u, phash64_b |-> pack_phash64(fp), seq_b |-> pack_bool_bits(seq),
     seq_rows |-> Len(seq), seq_cols |-> IF Len(seq) = 0 THEN 0 ELSE Len(seq[1]),
     duration_s |-> dur]

Remove(s, x) == SelectSeq(s, LAMBDA y : y # x)

(* mutant: the pipeline without its write of the url2vid index *)
save_features_without_url_index(c, u, fp, seq, dur) ==
    LET video_id == sha1(u)
    IN  [features |-> (video_id :> FeatureHash(u, fp, seq, dur)) @@ r_features,
         vids     |-> [r_vids EXCEPT ![c] = <<video_id>> \o Remove(r_vids[c], video_id)],
         url2vid  |-> r_url2vid,
         video_id |-> video_id]

(* the three writes of save_video_features' pipeline, as new values *)
save_features(c, u, fp, seq, dur) ==
    LET video_id == sha1(u)
    IN  [features |-> (video_id :> FeatureHash(u, fp, seq, dur)) @@ r_features,
         vids     |-> [r_vids EXCEPT ![c] = <<video_id>> \o Remove(r_vids[c], video_id)],
         url2vid  |-> [r_url2vid EXCEPT ![c] = (sha1(u) :> video_id) @@ r_url2vid[c]],
         video_id |-> video_id]

DecodeHash(vid, h) ==
    [video_id |-> vid, url |-> h.url, phash64 |-> unpack_phash64(h.phash64_b),
     seq_sig |-> unpack_bool_bits(h.seq_b, h.seq_rows, h.seq_cols),
     duration_s |-> h.duration_s]

UsableHash(h) ==
    ~(Len(h.phash64_b) = 0 \/ Len(h.seq_b) = 0 \/ h.seq_rows <= 0 \/ h.seq_cols <= 0)

get_features_by_url(c, u) ==
    IF sha1(u) \notin DOMAIN r_url2vid[c] THEN None
    ELSE LET vid == r_url2vid[c][sha1(u)]
         IN  IF vid \notin DOMAIN r_features THEN None
             ELSE IF ~UsableHash(r_features[vid]) THEN None
             ELSE Some(DecodeHash(vid, r_features[vid]))

recent_candidates(c, k) ==
    LET ids == SubSeq(r_vids[c], 1, Min(k, Len(r_vids[c])))
        ok(vid) == vid \in DOMAIN r_features /\ UsableHash(r_features[vid])
        kept == SelectSeq(ids, ok)
    IN  [n \in 1..Len(kept) |-> DecodeHash(kept[n], r_features[kept[n]])]

(* ------------------------------ pg/dao.py ------------------------------ *)
PgRow(video_id, c, u, fp, seq, dur) ==
    [video_id |-> video_id, campaign_id |-> c, url |-> u,
     phash64 |-> pack_phash64(fp), seq_sig |-> pack_bool_bits(seq),
     seq_rows |-> Len(seq), seq_cols |-> IF Len(seq) = 0 THEN 0 ELSE Len(seq[1]),
     duration_s |-> dur]

(* mutant: the insert without its ON CONFLICT (url) DO NOTHING clause *)
pg_save_without_conflict_clause(video_id, c, u, fp, seq, dur) ==
    pg_video_features \cup {PgRow(video_id, c, u, fp, seq, dur)}

(* INSERT ... ON CONFLICT (url) DO NOTHING *)
pg_save_video_features(video_id, c, u, fp, seq, dur) ==
    IF \E row \in pg_video_features : row.url = u THEN pg_video_features
    ELSE pg_video_features \cup {PgRow(video_id, c, u, fp, seq, dur)}

(* mutant: the SELECT has lost its WHERE url = %s *)
pg_get_any_row(u) ==
    IF pg_video_features # {}
    THEN LET row == CHOOSE x \in pg_video_features : TRUE
         IN  Some([video_id |-> row.video_id, campaign_id |-> row.campaign_id,
                   url |-> row.url, phash64 |-> unpack_phash64(row.phash64),
                   seq_sig |-> unpack_bool_bits(row.seq_sig, row.seq_rows, row.seq_cols),
                   duration_s |-> row.duration_s])
    ELSE None

pg_get_by_url(u) ==
    IF \E row \in pg_video_features : row.url = u
    THEN LET row == CHOOSE x \in pg_video_features : x.url = u
         IN  Some([video_id |-> row.video_id, campaign_id |-> row.campaign_id,
                   url |-> row.url, phash64 |-> unpack_phash64(row.phash64),
                   seq_sig |-> unpack_bool_bits(row.seq_sig, row.seq_rows, row.seq_cols),
                   duration_s |-> row.duration_s])
    ELSE None

(* campaign_retention.end_date against today: no row, a later date, a date reached *)
RetentionMarks == {"none", "future", "expired"}

(* mutant: the date test of the SELECT dropped, every marked campaign returned *)
pg_marked_campaign_ids ==
    {c \in DOMAIN pg_campaign_retention : pg_campaign_retention[c] # "none"}

(* SELECT campaign_id FROM campaign_retention WHERE end_date <= today *)
pg_expired_campaign_ids ==
    {c \in DOMAIN pg_campaign_retention : pg_campaign_retention[c] = "expired"}

(* mutant: the DELETE has lost its WHERE campaign_id = %s *)
pg_delete_all_videos(c) == {}

(* DELETE FROM video_features WHERE campaign_id = c *)
pg_delete_videos_by_campaign(c) ==
    {row \in pg_video_features : row.campaign_id # c}

(* ... RETURNING video_id *)
deleted_video_ids(c) ==
    {row.video_id : row \in {x \in pg_video_features : x.campaign_id = c}}

(* DELETE FROM campaign_retention WHERE campaign_id = c *)
pg_delete_campaign_retention(c) ==
    [pg_campaign_retention EXCEPT ![c] = "none"]

(* -------------------------- redisdb/rate_limit.py ---------------------- *)
(* mutant: the caps compared with >= instead of > *)
decide_at_cap_degrades(c, est_usd, need) ==
    LET snap == r_cost[c]
    IN  IF snap.usd + est_usd >= USD_DAY_CAP THEN "degrade"
        ELSE IF snap.llm + need.llm >= MAX_LLM_CALLS THEN "degrade"
        ELSE IF snap.emb + need.emb >= MAX_EMB_CALLS THEN "degrade"
        ELSE "allow"

decide(c, est_usd, need) ==
    LET snap == r_cost[c]
    IN  IF snap.usd + est_usd > USD_DAY_CAP THEN "degrade"
        ELSE IF snap.llm + need.llm > MAX_LLM_CALLS THEN "degrade"
        ELSE IF snap.emb + need.emb > MAX_EMB_CALLS THEN "degrade"
        ELSE "allow"

(* mutant: the counters written with HSET instead of incremented *)
commit_sets_counters(c, spent_usd, used) ==
    [r_cost EXCEPT ![c] = [usd |-> spent_usd, llm |-> used.llm, emb |-> used.emb]]

(* mutant: the pipeline loses the increment of the call counters *)
commit_usd_only(c, spent_usd, used) ==
    [r_cost EXCEPT ![c] = [usd |-> @.usd + spent_usd, llm |-> @.llm, emb |-> @.emb]]

(* 67-76: one MULTI/EXEC pipeline of HINCRBYFLOAT commands *)
commit(c, spent_usd, used) ==
    [r_cost EXCEPT ![c] = [usd |-> @.usd + spent_usd,
                           llm |-> @.llm + used.llm,
                           emb |-> @.emb + used.emb]]

(* --------------------------- nlp/vlm_summary.py ------------------------ *)
FRAMES_MAX == 20

(* _uniform_keyframes: every step-th frame read in order, at most max_frames *)
uniform_keyframes(video, max_frames) ==
    LET total == Len(video)
        step == Max(1, total \div max_frames)
        picks == {idx \in 0..(total - 1) : idx % step = 0}
    IN  [k \in 1..Min(max_frames, Cardinality(picks)) |-> (k - 1) * step]

(* what the external collaborators can answer *)
AsrOutputs == {None, Some("text")}
SummaryOutputs == {"raise", "empty", "text"}
JudgeOutputs ==
    {[kind |-> "raise", aproved |-> FALSE, match_percent |-> 0],
     [kind |-> "empty", aproved |-> FALSE, match_percent |-> 0],
     [kind |-> "invalid", aproved |-> FALSE, match_percent |-> 0],
     [kind |-> "json", aproved |-> TRUE, match_percent |-> 85],
     [kind |-> "json", aproved |-> FALSE, match_percent |-> 40],
     \* a JSON object whose match_percent is a number outside 0..100
     [kind |-> "json", aproved |-> FALSE, match_percent |-> 150],
     \* a JSON object with a truthy aproved whose match_percent is no number ("80%")
     [kind |-> "untyped", aproved |-> TRUE, match_percent |-> 0]}

(* ------------------- services/evaluate_service.py ---------------------- *)
CandLists == UNION {[1..n -> URLS] : n \in 0..MaxCands}

(* the for loop over req.candidates: next iteration, or fall through to step 2 *)
LoopPc(q, k) == IF k <= Len(q.candidates) THEN "cands" ELSE "budget"

(* mutant: a break where the loop has a continue *)
ContinueBreaks(q) == [q EXCEPT !.pc = "budget"]

Continue(q) == [q EXCEPT !.i = q.i + 1, !.pc = LoopPc(q, q.i + 1)]

ConcCandLists == UNION {[1..n -> 1..ConcUrls] : n \in 0..ConcCands}

(* 68-83: a request arrives while others may be in flight *)
StartConc(r) ==
    /\ req[r].pc = "idle"
    /\ nreq < ConcReqs
    /\ \E c \in 1..ConcCampaigns, u \in 1..ConcUrls, cs \in ConcCandLists :
           req' = [req EXCEPT ![r] = NewReq(c, u, cs)]
    /\ nreq' = nreq + 1
    /\ UNCHANGED <<settings, probe, pg_campaign_retention, kf_dirs, cleaner, stores, decision>>

(* 68-83: a request arrives *)
Start(r) ==
    /\ req[r].pc = "idle"
    /\ nreq < MaxReqs
    /\ \E c \in CAMPAIGNS, u \in URLS, cs \in CandLists :
           req' = [req EXCEPT ![r] = NewReq(c, u, cs)]
    /\ nreq' = nreq + 1
    /\ UNCHANGED <<settings, probe, pg_campaign_retention, kf_dirs, cleaner, stores, decision>>

(* routers/evaluate.py 75-80: the response (or the HTTP 500) leaves the service *)
Return(r) ==
    /\ req[r].pc = "done"
    /\ req' = [req EXCEPT ![r] = IdleReq]
    /\ UNCHANGED <<settings, probe, pg_campaign_retention, kf_dirs, cleaner, stores, nreq, decision>>

(* mutant: the lookup hit does not return (101-108 missing) *)
LookupWithoutReturn(r) ==
    LET q == req[r] IN
    /\ q.pc = "lookup"
    /\ \E redis_ok \in BOOLEAN :
         LET cached == get_features_by_url(q.campaign_id, q.video_url) IN
         req' = [req EXCEPT ![r] =
                   IF ~redis_ok THEN Raise(q)
                   ELSE IF IsNone(cached) /\ settings.PG_ENABLED
                        THEN [q EXCEPT !.pc = "pg_lookup"]
                   ELSE [q EXCEPT !.cached_base = cached, !.pc = "recent"]]
    /\ UNCHANGED <<settings, probe, pg_campaign_retention, kf_dirs, cleaner, stores, nreq, decision>>

(* 85-86 and 101-108: fast-tier lookup of the base URL *)
Lookup(r) ==
    LET q == req[r] IN
    /\ q.pc = "lookup"
    /\ \E redis_ok \in BOOLEAN :
         LET cached == get_features_by_url(q.campaign_id, q.video_url) IN
         req' = [req EXCEPT ![r] =
                   IF ~redis_ok THEN Raise(q)
                   ELSE IF IsNone(cached) /\ settings.PG_ENABLED
                        THEN [q EXCEPT !.pc = "pg_lookup"]
                   ELSE IF ~IsNone(cached)
                        THEN Finish([q EXCEPT !.cached_base = cached],
                                    DupResponse("URL", q.video_url))
                   ELSE [q EXCEPT !.pc = "recent"]]
    /\ UNCHANGED <<settings, probe, pg_campaign_retention, kf_dirs, cleaner, stores, nreq, decision>>

(* 87-88: durable-tier lookup on a fast-tier miss *)
PgLookup(r) ==
    LET q == req[r] IN
    /\ q.pc = "pg_lookup"
    /\ \E pg_ok \in BOOLEAN :
         LET rec == pg_get_by_url(q.video_url) IN
         req' = [req EXCEPT ![r] =
                   IF ~pg_ok THEN Raise([q EXCEPT !.log = Append(q.log, Ev("pg_get", 0))])
                   ELSE IF IsNone(rec)
                        THEN [q EXCEPT !.pc = "recent", !.log = Append(q.log, Ev("pg_get", 0))]
                   ELSE [q EXCEPT !.pc = "repopulate", !.cached_base = rec,
                                  !.log = Append(q.log, Ev("pg_get", 0))]]
    /\ UNCHANGED <<settings, probe, pg_campaign_retention, kf_dirs, cleaner, stores, nreq, decision>>

(* 89-108: write-back of the durable row into Redis, then the URL duplicate *)
Repopulate(r) ==
    LET q == req[r]
        rec == Val(q.cached_base)
        w == save_features(q.campaign_id, rec.url, rec.phash64, rec.seq_sig, rec.duration_s)
    IN
    /\ q.pc = "repopulate"
    /\ \E redis_ok \in BOOLEAN :
         /\ IF redis_ok
            THEN /\ r_features' = w.features
                 /\ r_vids' = w.vids
                 /\ r_url2vid' = w.url2vid
            ELSE UNCHANGED <<r_features, r_vids, r_url2vid>>
         /\ req' = [req EXCEPT ![r] =
                      Finish([q EXCEPT !.log = Append(q.log, Ev("repopulate", 0))],
                             DupResponse("URL", q.video_url))]
    /\ UNCHANGED <<settings, probe, pg_campaign_retention, kf_dirs, cleaner, r_cost, pg_video_features, nreq, decision>>

HashFires(base_fp, cand_fp) ==
    similarity_percent(base_fp, cand_fp) >= HASH_DUP_THRESHOLD

SeqFires(base_seq, cand_seq) ==
    sequence_match_percent(base_seq, cand_seq, BIT_TOLERANCE, WINDOW) >= SEQ_DUP_THRESHOLD

(* 122-140: the first recent video for which a gate fires, 0 if none *)
FirstRecentHit(base_fp, base_seq, recents) ==
    LET hits == {n \in 1..Len(recents) :
                   \/ HashFires(base_fp, Some(recents[n].phash64))
                   \/ SeqFires(Val(base_seq), recents[n].seq_sig)}
    IN  IF hits = {} THEN 0 ELSE CHOOSE n \in hits : \A m \in hits : n <= m

(* 110-140: dedupe against the campaign's recent videos *)
DedupeRecent(r) ==
    LET q == req[r]
        q1 == IF ~IsNone(q.cached_base)
              THEN [q EXCEPT !.base_fp = Some(Val(q.cached_base).phash64),
                             !.base_seq = Some(Val(q.cached_base).seq_sig)]
              ELSE q
    IN
    /\ q.pc = "recent"
    /\ IF ~IsNone(q1.base_fp) /\ ~IsNone(q1.base_seq)
       THEN \E redis_ok \in BOOLEAN :
              LET recents == recent_candidates(q.campaign_id, RECENT_K)
                  n == FirstRecentHit(q1.base_fp, q1.base_seq, recents)
              IN  req' = [req EXCEPT ![r] =
                     IF ~redis_ok THEN Raise(q1)
                     ELSE IF n = 0 THEN [q1 EXCEPT !.pc = LoopPc(q1, 1)]
                     ELSE IF HashFires(q1.base_fp, Some(recents[n].phash64))
                          THEN Finish(q1, DupResponse("HASH", recents[n].url))
                     ELSE Finish(q1, DupResponse("SEQ", recents[n].url))]
       ELSE req' = [req EXCEPT ![r] = [q1 EXCEPT !.pc = LoopPc(q1, 1)]]
    /\ UNCHANGED <<settings, probe, pg_campaign_retention, kf_dirs, cleaner, stores, nreq, decision>>

(* 157-162, 195-200, 256-262, 320-326: descargar_video of the base, guarded by the
   test the call site makes on base_path; a failed download raises *)
DownloadBase(q, needed, dl_ok) ==
    IF ~needed THEN [q |-> q, raised |-> FALSE]
    ELSE [q |-> [q EXCEPT !.base_path = IF dl_ok THEN Some(q.video_url) ELSE None,
                          !.log = Append(q.log, Ev("dl_base", 0))],
          raised |-> ~dl_ok]

(* 168-171, 206-209, 267-270: optional audio extraction and transcription *)
Transcribe(q, enabled, wav_ok, asr) ==
    IF ~enabled THEN q
    ELSE IF ~wav_ok THEN [q EXCEPT !.log = Append(q.log, Ev("wav", 0))]
    ELSE [q EXCEPT !.transcript_text = asr,
                   !.log = q.log \o <<Ev("wav", 0), Ev("asr", 0)>>]

(* 163-164, 201-202, 327-328: fingerprints of the downloaded base *)
Fingerprints(q) ==
    [q EXCEPT !.base_fp = DecodedAt(q.video_url).fp,
              !.base_seq = Some(DecodedAt(q.video_url).seq),
              !.log = q.log \o <<Ev("fp_base", 0), Ev("seq_base", 0)>>]

Keyframes(q) ==
    [q EXCEPT !.frames_b64 = uniform_keyframes(VideoAt(q.video_url), FRAMES_MAX),
              !.log = Append(q.log, Ev("keyframes", 0))]

(* 155-171 and 194-209: the single download of the base inside the loop *)
EnsureBase(q, dl_ok, wav_ok, asr) ==
    IF ~(IsNone(q.base_fp) \/ IsNone(q.base_seq)) THEN [q |-> q, raised |-> FALSE]
    ELSE LET d == DownloadBase(q, IsNone(q.base_path), dl_ok)
         IN  IF d.raised THEN d
             ELSE [q |-> Transcribe(Keyframes(Fingerprints(d.q)),
                                    settings.AUDIO_ASR_ENABLED, wav_ok, asr),
                   raised |-> FALSE]

(* mutant: the SEQ gate tested before the HASH gate *)
GatesSeqFirst(q, cand_fp, cand_seq, cand_url) ==
    LET q1 == [q EXCEPT !.log = Append(q.log, Ev("gate_seq", q.i))]
        q2 == [q1 EXCEPT !.log = Append(q1.log, Ev("gate_hash", q.i))]
    IN  IF SeqFires(Val(q.base_seq), cand_seq)
        THEN Finish(q1, DupResponse("SEQ", cand_url))
        ELSE IF HashFires(q.base_fp, cand_fp)
        THEN Finish(q2, DupResponse("HASH", cand_url))
        ELSE Continue(q2)

(* 173-191, 217-234: HASH then SEQ for one candidate; cand_url is the URL reported *)
Gates(q, cand_fp, cand_seq, cand_url) ==
    LET q1 == [q EXCEPT !.log = Append(q.log, Ev("gate_hash", q.i))]
        q2 == [q1 EXCEPT !.log = Append(q1.log, Ev("gate_seq", q.i))]
    IN  IF HashFires(q.base_fp, cand_fp)
        THEN Finish(q1, DupResponse("HASH", cand_url))
        ELSE IF SeqFires(Val(q.base_seq), cand_seq)
        THEN Finish(q2, DupResponse("SEQ", cand_url))
        ELSE Continue(q2)

(* the outcomes of a call to a collaborator: it is only a choice when the call is made *)
Outcomes(called) == IF called THEN BOOLEAN ELSE {TRUE}
AsrOutcomes(called) == IF called THEN AsrOutputs ELSE {None}

NeedsBase(q) == IsNone(q.base_fp) \/ IsNone(q.base_seq)
NeedsDownload(q) == NeedsBase(q) /\ IsNone(q.base_path)

(* mutant: a candidate that cannot be downloaded fails the request *)
CandStepResultRaisesOnCandidate(q, redis_ok, dl_ok, wav_ok, asr, cand_ok) ==
    LET cand_url == q.candidates[q.i]
        q0 == [q EXCEPT !.log = Append(q.log, Ev("gate_url", q.i))]
        cached_cand == get_features_by_url(q.campaign_id, cand_url)
        e == EnsureBase(q0, dl_ok, wav_ok, asr)
        qd == [e.q EXCEPT !.log = Append(e.q.log, Ev("dl_cand", q.i))]
    IN  IF cand_url = q.video_url THEN Finish(q0, DupResponse("URL", cand_url))
        ELSE IF ~redis_ok THEN Raise(q0)
        ELSE IF e.raised THEN Raise(e.q)
        ELSE IF ~IsNone(cached_cand)
             THEN Gates(e.q, Some(Val(cached_cand).phash64), Val(cached_cand).seq_sig,
                        Val(cached_cand).url)
        ELSE IF ~cand_ok THEN Raise(qd)
        ELSE Gates(qd, DecodedAt(cand_url).fp, DecodedAt(cand_url).seq, cand_url)

(* 143-234: one iteration of the loop over the explicit candidates *)
CandStepResult(q, redis_ok, dl_ok, wav_ok, asr, cand_ok) ==
    LET cand_url == q.candidates[q.i]
        q0 == [q EXCEPT !.log = Append(q.log, Ev("gate_url", q.i))]
        cached_cand == get_features_by_url(q.campaign_id, cand_url)
        e == EnsureBase(q0, dl_ok, wav_ok, asr)
        qd == [e.q EXCEPT !.log = Append(e.q.log, Ev("dl_cand", q.i))]
    IN  IF cand_url = q.video_url THEN Finish(q0, DupResponse("URL", cand_url))
        ELSE IF ~redis_ok THEN Raise(q0)
        ELSE IF e.raised THEN Raise(e.q)
        ELSE IF ~IsNone(cached_cand)
             THEN Gates(e.q, Some(Val(cached_cand).phash64), Val(cached_cand).seq_sig,
                        Val(cached_cand).url)
        ELSE IF ~cand_ok THEN Continue(qd)
        ELSE Gates(qd, DecodedAt(cand_url).fp, DecodedAt(cand_url).seq, cand_url)

CandStep(r) ==
    LET q == req[r] IN
    /\ q.pc = "cands"
    /\ \E redis_ok \in Outcomes(q.candidates[q.i] # q.video_url) :
       \E dl_ok \in Outcomes(redis_ok /\ q.candidates[q.i] # q.video_url /\ NeedsDownload(q)) :
       \E wav_ok \in Outcomes(redis_ok /\ dl_ok /\ q.candidates[q.i] # q.video_url
                                /\ NeedsBase(q) /\ settings.AUDIO_ASR_ENABLED) :
       \E asr \in AsrOutcomes(redis_ok /\ dl_ok /\ wav_ok /\ q.candidates[q.i] # q.video_url
                                /\ NeedsBase(q) /\ settings.AUDIO_ASR_ENABLED) :
       \E cand_ok \in Outcomes(redis_ok /\ dl_ok /\ q.candidates[q.i] # q.video_url
                                /\ IsNone(get_features_by_url(q.campaign_id, q.candidates[q.i]))) :
         req' = [req EXCEPT ![r] = CandStepResult(q, redis_ok, dl_ok, wav_ok, asr, cand_ok)]
    /\ UNCHANGED <<settings, probe, pg_campaign_retention, kf_dirs, cleaner, stores, nreq, decision>>

DegradedResponse ==
    EvaluateResponse(FALSE, "null", None, Some(AlignmentResult(FALSE, 0, "degraded")),
                     [ZeroCost EXCEPT !.degraded_path = TRUE])

(* mutant: the degraded branch does not return (241-251 missing) *)
BudgetContinuesOnDegrade(r) ==
    LET q == req[r]
        qd == [q EXCEPT !.log = Append(q.log, Ev("decide", 0))]
    IN
    /\ q.pc = "budget"
    /\ IF settings.BUDGET_GUARDRAILS_ENABLED
       THEN \E redis_ok \in BOOLEAN :
              req' = [req EXCEPT ![r] =
                 IF ~redis_ok THEN Raise(qd) ELSE [qd EXCEPT !.pc = "prepare"]]
       ELSE req' = [req EXCEPT ![r] = [q EXCEPT !.pc = "prepare"]]
    /\ UNCHANGED <<settings, probe, pg_campaign_retention, kf_dirs, cleaner, stores, nreq, decision>>

(* 236-251: the budget decision *)
Budget(r) ==
    LET q == req[r]
        qd == [q EXCEPT !.log = Append(q.log, Ev("decide", 0))]
    IN
    /\ q.pc = "budget"
    /\ IF settings.BUDGET_GUARDRAILS_ENABLED
       THEN \E redis_ok \in BOOLEAN :
              req' = [req EXCEPT ![r] =
                 IF ~redis_ok THEN Raise(qd)
                 ELSE IF decide(q.campaign_id, EST_USD, [llm |-> 1, emb |-> 0]) # "allow"
                      THEN Finish(qd, DegradedResponse)
                 ELSE [qd EXCEPT !.pc = "prepare"]]
       ELSE req' = [req EXCEPT ![r] = [q EXCEPT !.pc = "prepare"]]
    /\ UNCHANGED <<settings, probe, pg_campaign_retention, kf_dirs, cleaner, stores, nreq, decision>>

(* 253-270: keyframes and transcript for the summarizer *)
PrepareResult(q, dl_ok, wav_ok, asr) ==
    IF Len(q.frames_b64) # 0 THEN [q EXCEPT !.pc = "summarize"]
    ELSE LET d == DownloadBase(q, IsNone(q.base_path), dl_ok)
         IN  IF d.raised THEN Raise(d.q)
             ELSE [Transcribe(Keyframes(d.q),
                              settings.AUDIO_ASR_ENABLED /\ IsNone(d.q.transcript_text),
                              wav_ok, asr)
                   EXCEPT !.pc = "summarize"]

Prepare(r) ==
    LET q == req[r] IN
    /\ q.pc = "prepare"
    /\ \E dl_ok \in Outcomes(Len(q.frames_b64) = 0 /\ IsNone(q.base_path)) :
       \E wav_ok \in Outcomes(Len(q.frames_b64) = 0 /\ dl_ok /\ settings.AUDIO_ASR_ENABLED
                                /\ IsNone(q.transcript_text)) :
       \E asr \in AsrOutcomes(Len(q.frames_b64) = 0 /\ dl_ok /\ wav_ok
                                /\ settings.AUDIO_ASR_ENABLED /\ IsNone(q.transcript_text)) :
         req' = [req EXCEPT ![r] = PrepareResult(q, dl_ok, wav_ok, asr)]
    /\ UNCHANGED <<settings, probe, pg_campaign_retention, kf_dirs, cleaner, stores, nreq, decision>>

FailedResponse(reasons, llm_calls) ==
    EvaluateResponse(FALSE, "null", None, Some(AlignmentResult(FALSE, 0, reasons)),
                     [ZeroCost EXCEPT !.llm_calls = llm_calls])

(* 273-288: the summarizer call *)
Summarize(r) ==
    LET q == req[r]
        qs == [q EXCEPT !.log = Append(q.log, Ev("summarize", 0))]
    IN
    /\ q.pc = "summarize"
    /\ \E out \in SummaryOutputs :
         req' = [req EXCEPT ![r] =
            IF out = "raise" THEN Raise(qs)
            ELSE IF out = "empty" THEN Finish(qs, FailedResponse("no_summary", 0))
            ELSE [qs EXCEPT !.summary = Some(out), !.llm_calls = 1, !.pc = "judge"]]
    /\ UNCHANGED <<settings, probe, pg_campaign_retention, kf_dirs, cleaner, stores, nreq, decision>>

(* 290-305: the judge call and the parse of its answer *)
Judge(r) ==
    LET q == req[r]
        qj == [q EXCEPT !.log = Append(q.log, Ev("judge", 0))]
    IN
    /\ q.pc = "judge"
    /\ \E out \in JudgeOutputs :
         req' = [req EXCEPT ![r] =
            IF out.kind = "raise" THEN Raise(qj)
            ELSE IF out.kind = "empty" THEN Finish(qj, FailedResponse("no_compare", q.llm_calls))
            ELSE [qj EXCEPT !.cmp_json = out, !.pc = "commit"]]
    /\ UNCHANGED <<settings, probe, pg_campaign_retention, kf_dirs, cleaner, stores, nreq, decision>>

(* 307-309: commit of the consumed budget *)
Commit(r) ==
    LET q == req[r]
        qc == [q EXCEPT !.log = Append(q.log, Ev("commit", 0))]
    IN
    /\ q.pc = "commit"
    /\ IF settings.BUDGET_GUARDRAILS_ENABLED /\ q.llm_calls # 0
       THEN \E redis_ok \in BOOLEAN :
              IF redis_ok
              THEN /\ r_cost' = commit(q.campaign_id, EST_USD, [llm |-> q.llm_calls, emb |-> 0])
                   /\ req' = [req EXCEPT ![r] = [qc EXCEPT !.pc = "persist"]]
              ELSE /\ UNCHANGED r_cost
                   /\ req' = [req EXCEPT ![r] = Raise(qc)]
       ELSE /\ UNCHANGED r_cost
            /\ req' = [req EXCEPT ![r] = [q EXCEPT !.pc = "persist"]]
    /\ UNCHANGED <<settings, probe, pg_campaign_retention, kf_dirs, cleaner, r_features, r_url2vid, r_vids, pg_video_features, nreq, decision>>

(* 362-371: the final response *)
FinalResponse(q) ==
    IF q.cmp_json.kind = "untyped" THEN ErrorResp   \* 366: float() raises ValueError
    ELSE EvaluateResponse(FALSE, "null", None,
                     Some(AlignmentResult(q.cmp_json.aproved, q.cmp_json.match_percent, "judge")),
                     [ZeroCost EXCEPT !.llm_calls = q.llm_calls])

(* mutant: persistence for every verdict *)
ShouldPersistAnyVerdict(q) == IsNone(q.cached_base)

(* 312, 317: the persistence step runs for an approved, not previously cached base *)
ShouldPersist(q) == q.cmp_json.aproved /\ IsNone(q.cached_base)

(* mutant: the persistence step downloads the base without testing base_path *)
EnsureFingerprintsRedownloads(q, dl_ok) ==
    IF ~(IsNone(q.base_fp) \/ IsNone(q.base_seq)) THEN [q |-> q, raised |-> FALSE]
    ELSE LET d == DownloadBase(q, TRUE, dl_ok)
         IN  IF d.raised THEN d ELSE [q |-> Fingerprints(d.q), raised |-> FALSE]

(* 319-328: fingerprints for the path that never computed them *)
EnsureFingerprints(q, dl_ok) ==
    IF ~(IsNone(q.base_fp) \/ IsNone(q.base_seq)) THEN [q |-> q, raised |-> FALSE]
    ELSE LET d == DownloadBase(q, IsNone(q.base_path), dl_ok)
         IN  IF d.raised THEN d ELSE [q |-> Fingerprints(d.q), raised |-> FALSE]

(* rows, cols = seq_bits.shape fails on the 1-d empty array of an undecodable video *)
ShapeOk(seq) == Len(seq) > 0

DurationOf(q) == IF IsNone(q.base_path) THEN 0 ELSE get_duration_s(VideoAt(Val(q.base_path)))

(* 311-342: persistence decision and the Redis write *)
Persist(r) ==
    LET q == req[r] IN
    /\ q.pc = "persist"
    /\ IF ShouldPersist(q)
       THEN \E dl_ok \in Outcomes(NeedsDownload(q)) :
            \E redis_ok \in Outcomes(dl_ok) :
              LET e == EnsureFingerprints(q, dl_ok)
                  p == e.q
                  has == ~IsNone(p.base_fp) /\ ~IsNone(p.base_seq)
                  saved == has /\ redis_ok /\ ShapeOk(Val(p.base_seq))
                  w == save_features(p.campaign_id, p.video_url, Val(p.base_fp),
                                     Val(p.base_seq), DurationOf(p))
                  ps == [p EXCEPT !.log = Append(p.log, Ev("redis_save", 0)),
                                  !.video_id = IF saved THEN Some(w.video_id) ELSE None]
              IN  /\ IF saved
                     THEN /\ r_features' = w.features
                          /\ r_vids' = w.vids
                          /\ r_url2vid' = w.url2vid
                     ELSE UNCHANGED <<r_features, r_vids, r_url2vid>>
                  /\ req' = [req EXCEPT ![r] =
                        IF e.raised THEN Raise(p)
                        ELSE IF ~has THEN Finish(p, FinalResponse(p))
                        ELSE IF settings.PG_ENABLED THEN [ps EXCEPT !.pc = "persist_pg"]
                        ELSE Finish(ps, FinalResponse(ps))]
       ELSE /\ UNCHANGED <<r_features, r_vids, r_url2vid>>
            /\ req' = [req EXCEPT ![r] = Finish(q, FinalResponse(q))]
    /\ UNCHANGED <<settings, probe, pg_campaign_retention, kf_dirs, cleaner, r_cost, pg_video_features, nreq, decision>>

(* 344-371: the Postgres write-through, then the final response *)
PersistPg(r) ==
    LET q == req[r]
        video_id == IF IsNone(q.video_id) THEN sha1(q.video_url) ELSE Val(q.video_id)
        qp == [q EXCEPT !.video_id = Some(video_id), !.log = Append(q.log, Ev("pg_save", 0))]
    IN
    /\ q.pc = "persist_pg"
    /\ \E pg_ok \in BOOLEAN :
         /\ IF pg_ok /\ ShapeOk(Val(q.base_seq))
            THEN pg_video_features' =
                     pg_save_video_features(video_id, q.campaign_id, q.video_url,
                                            Val(q.base_fp), Val(q.base_seq), DurationOf(q))
            ELSE UNCHANGED pg_video_features
         /\ req' = [req EXCEPT ![r] = Finish(qp, FinalResponse(qp))]
    /\ UNCHANGED <<settings, probe, pg_campaign_retention, kf_dirs, cleaner, r_features, r_url2vid, r_vids, r_cost, nreq, decision>>

(* ------------------- services/retention_cleanup.py --------------------- *)
(* the task before its first sweep; before is the durable state the task found *)
IdleCleaner ==
    [pc |-> "sleep", expired |-> <<>>, k |-> 0, video_ids |-> {}, sweeps |-> 0,
     clean |-> TRUE, shutdown |-> FALSE,
     before |-> [rows |-> pg_video_features, marks |-> pg_campaign_retention,
                 dirs |-> kf_dirs]]

(* the rows of a SELECT without ORDER BY come in any order *)
Orders(S) == {o \in [1..Cardinality(S) -> S] : \A a, b \in DOMAIN o : o[a] = o[b] => a = b}

(* _run_once returns or raises: back in run_forever's sleep (22-27) *)
EndSweep(cl) == [cl EXCEPT !.pc = "sleep", !.expired = <<>>, !.k = 0, !.video_ids = {}]

(* the for loop over expired (36): next campaign, or the end of the sweep *)
NextCampaign(cl) ==
    IF cl.k < Len(cl.expired) THEN [cl EXCEPT !.pc = "videos", !.k = cl.k + 1]
    ELSE EndSweep(cl)

(* 21-23 and 29-36: the sleep ends and a sweep reads the expired campaigns. A
   failing SELECT raises into run_forever, which swallows it (24-26). *)
_run_once ==
    /\ settings.PG_ENABLED
    /\ cleaner.pc = "sleep"
    /\ ~cleaner.shutdown
    /\ cleaner.sweeps < MaxSweeps
    /\ \E select_ok \in BOOLEAN : \E expired \in Orders(pg_expired_campaign_ids) :
         cleaner' =
            IF ~select_ok THEN [cleaner EXCEPT !.sweeps = @ + 1, !.clean = FALSE]
            ELSE IF Len(expired) = 0 THEN [cleaner EXCEPT !.sweeps = @ + 1, !.clean = TRUE]
            ELSE [cleaner EXCEPT !.pc = "videos", !.expired = expired, !.k = 1,
                                 !.sweeps = @ + 1, !.clean = TRUE]
    /\ UNCHANGED <<settings, probe, pg_campaign_retention, kf_dirs, stores, req, nreq, decision>>

(* 37-38: step 1, outside any try: a failure ends the whole sweep *)
SweepDeleteVideos ==
    /\ cleaner.pc = "videos"
    /\ \E ok \in BOOLEAN :
         LET cid == cleaner.expired[cleaner.k] IN
         /\ pg_video_features' = IF ok THEN pg_delete_videos_by_campaign(cid)
                                  ELSE pg_video_features
         /\ cleaner' = IF ok THEN [cleaner EXCEPT !.pc = "keyframes",
                                                  !.video_ids = deleted_video_ids(cid)]
                       ELSE EndSweep([cleaner EXCEPT !.clean = FALSE])
    /\ UNCHANGED <<settings, probe, pg_campaign_retention, kf_dirs, r_features, r_url2vid, r_vids,
                   r_cost, req, nreq, decision>>

(* 40-46: step 2, each directory on its own, every error ignored *)
SweepRemoveKeyframes ==
    /\ cleaner.pc = "keyframes"
    /\ \E removed \in SUBSET cleaner.video_ids :
         /\ kf_dirs' = kf_dirs \ removed
         /\ cleaner' = [cleaner EXCEPT !.pc = "retention", !.video_ids = {},
                                       !.clean = @ /\ removed = cleaner.video_ids]
    /\ UNCHANGED <<settings, probe, pg_campaign_retention, stores, req, nreq, decision>>

(* 48-52: step 3, its exception ignored; then the next campaign *)
SweepDeleteRetention ==
    /\ cleaner.pc = "retention"
    /\ \E ok \in BOOLEAN :
         LET cid == cleaner.expired[cleaner.k] IN
         /\ pg_campaign_retention' = IF ok THEN pg_delete_campaign_retention(cid)
                                      ELSE pg_campaign_retention
         /\ cleaner' = NextCampaign([cleaner EXCEPT !.clean = @ /\ ok])
    /\ UNCHANGED <<settings, probe, kf_dirs, stores, req, nreq, decision>>

(* main.py 34-38: the application shuts down while the task is anywhere; the
   sweep has no await, so task.cancel() reaches the task at its sleep only *)
Shutdown ==
    /\ settings.PG_ENABLED
    /\ ~cleaner.shutdown
    /\ cleaner' = [cleaner EXCEPT !.shutdown = TRUE]
    /\ UNCHANGED <<settings, probe, pg_campaign_retention, kf_dirs, stores, req, nreq, decision>>

(* retention_cleanup.py 27: CancelledError raised at await asyncio.sleep *)
Cancelled ==
    /\ cleaner.shutdown
    /\ cleaner.pc = "sleep"
    /\ cleaner' = [cleaner EXCEPT !.pc = "cancelled"]
    /\ UNCHANGED <<settings, probe, pg_campaign_retention, kf_dirs, stores, req, nreq, decision>>

(* ------------------- the guardrail called on its own ------------------- *)
MaxCalls == 3
UsdStart == {0, USD_DAY_CAP - 4}
LlmStart == {0, MAX_LLM_CALLS - 2}
EmbStart == {0, MAX_EMB_CALLS - 2}
EstUsdInputs == {0, 1, EST_USD}
SpentUsdInputs == {1, EST_USD}
CallInputs == [llm : {0, 1}, emb : {0, 1}]

NoDecision == [campaign_id |-> 0, est_usd |-> 0, need |-> [llm |-> 0, emb |-> 0],
               action |-> "none"]

(* rate_limit.py 45-65: decide(campaign_id, est_usd, need), read-only *)
GuardDecide(c) ==
    /\ nreq < MaxCalls
    /\ \E est \in EstUsdInputs, need \in CallInputs :
         decision' = [campaign_id |-> c, est_usd |-> est, need |-> need,
                      action |-> decide(c, est, need)]
    /\ nreq' = nreq + 1
    /\ UNCHANGED <<settings, probe, pg_campaign_retention, kf_dirs, cleaner, stores, req>>

(* rate_limit.py 67-76: commit(campaign_id, spent_usd, used), one atomic pipeline *)
GuardCommit(c) ==
    /\ nreq < MaxCalls
    /\ \E spent \in SpentUsdInputs, used \in CallInputs :
         r_cost' = commit(c, spent, used)
    /\ nreq' = nreq + 1
    /\ UNCHANGED <<settings, probe, pg_campaign_retention, kf_dirs, cleaner, r_features, r_url2vid, r_vids, pg_video_features, req, decision>>

(* ---- direct calls of similarity_percent and of the HASH comparison ---- *)

FrameTail(k) == [i \in 1..HashBits |-> IF i > HashBits - k THEN 1 ELSE 0]

ProbeFingerprints ==
    UNION {[1..n -> {0, 1}] : n \in 1..ProbeBits}
        \cup {Frame(k) : k \in 0..ProbeFlips}
        \cup {FrameTail(k) : k \in 1..ProbeFlips}

(* what video_fingerprint hands to the comparison: a fingerprint or None *)
ProbeInputs == {None} \cup {Some(fp) : fp \in ProbeFingerprints}

NoProbe == [fp1 |-> None, fp2 |-> None, called |-> "none",
            fwd |-> 0, bwd |-> 0, self |-> 0, fires |-> FALSE]

(* phash.py 61-76: similarity_percent called on the pair, on the swapped pair and
   on the first argument with itself *)
CallSimilarity ==
    /\ probe.called = "none"
    /\ probe' = [probe EXCEPT !.called = "similarity",
                              !.fwd = similarity_percent(probe.fp1, probe.fp2),
                              !.bwd = similarity_percent(probe.fp2, probe.fp1),
                              !.self = similarity_percent(probe.fp1, probe.fp1)]
    /\ UNCHANGED <<settings, pg_campaign_retention, kf_dirs, cleaner, stores, req, nreq, decision>>

(* evaluate_service.py 217-225: the comparison of the HASH gate on base_fp, cand_fp *)
CallHashGate ==
    /\ probe.called = "none"
    /\ probe' = [probe EXCEPT !.called = "gate",
                              !.fwd = similarity_percent(probe.fp1, probe.fp2),
                              !.fires = HashFires(probe.fp1, probe.fp2)]
    /\ UNCHANGED <<settings, pg_campaign_retention, kf_dirs, cleaner, stores, req, nreq, decision>>

InitHash ==
    /\ settings = [PG_ENABLED |-> FALSE, BUDGET_GUARDRAILS_ENABLED |-> FALSE,
                   AUDIO_ASR_ENABLED |-> FALSE]
    /\ r_features = <<>>
    /\ r_url2vid = [c \in CAMPAIGNS |-> <<>>]
    /\ r_vids = [c \in CAMPAIGNS |-> <<>>]
    /\ r_cost = [c \in CAMPAIGNS |-> [usd |-> 0, llm |-> 0, emb |-> 0]]
    /\ pg_video_features = {}
    /\ pg_campaign_retention = [c \in CAMPAIGNS |-> "none"]
    /\ kf_dirs = {}
    /\ cleaner = IdleCleaner
    /\ req = [r \in {1} |-> IdleReq]
    /\ nreq = 0
    /\ decision = NoDecision
    /\ probe \in {[NoProbe EXCEPT !.fp1 = a, !.fp2 = b] : a, b \in ProbeInputs}

NextHash ==
    \/ CallSimilarity
    \/ CallHashGate

(* ---- direct calls of sequence_match_percent ---- *)

SeqProbeFrames == {Frame(0), Frame(3), Frame(6)}
SeqProbeSequences == UNION {[1..n -> SeqProbeFrames] : n \in 0..SeqProbeLen}
(* bit_tolerance within its documented range 0..64, window within the one evaluate uses *)
SeqProbeTolerances == {0, BIT_TOLERANCE, HashBits}
SeqProbeWindows == 0..WINDOW

NoSeqProbe == [seqA |-> <<>>, seqB |-> <<>>, bit_tolerance |-> 0, window |-> 0,
               called |-> "none", percent |-> 0, self |-> 0]

(* sequence.py 48-76: sequence_match_percent on the drawn arguments, and on seqA
   against itself with bit_tolerance 0 and window 0 *)
CallSequenceMatch ==
    /\ probe.called = "none"
    /\ probe' = [probe EXCEPT
                    !.called = "sequence",
                    !.percent = sequence_match_percent(probe.seqA, probe.seqB,
                                                       probe.bit_tolerance, probe.window),
                    !.self = sequence_match_percent(probe.seqA, probe.seqA, 0, 0)]
    /\ UNCHANGED <<settings, pg_campaign_retention, kf_dirs, cleaner, stores, req, nreq, decision>>

InitSeq ==
    /\ settings = [PG_ENABLED |-> FALSE, BUDGET_GUARDRAILS_ENABLED |-> FALSE,
                   AUDIO_ASR_ENABLED |-> FALSE]
    /\ r_features = <<>>
    /\ r_url2vid = [c \in CAMPAIGNS |-> <<>>]
    /\ r_vids = [c \in CAMPAIGNS |-> <<>>]
    /\ r_cost = [c \in CAMPAIGNS |-> [usd |-> 0, llm |-> 0, emb |-> 0]]
    /\ pg_video_features = {}
    /\ pg_campaign_retention = [c \in CAMPAIGNS |-> "none"]
    /\ kf_dirs = {}
    /\ cleaner = IdleCleaner
    /\ req = [r \in {1} |-> IdleReq]
    /\ nreq = 0
    /\ decision = NoDecision
    /\ probe \in {[NoSeqProbe EXCEPT !.seqA = a, !.seqB = b, !.bit_tolerance = t, !.window = w] :
                     a \in SeqProbeSequences, b \in SeqProbeSequences,
                     t \in SeqProbeTolerances, w \in SeqProbeWindows}

NextSeq ==
    \/ CallSequenceMatch

(* ---- direct calls of video_fingerprint ---- *)

FpProbeFrames == {Frame(0), Frame(1), Frame(2)}
(* a file with no readable frame is the empty video *)
FpProbeVideos == UNION {[1..n -> FpProbeFrames] : n \in 0..FpProbeLen}
FpProbeIntervals == {1, 2}

NoFpProbe == [video |-> <<>>, interval |-> 1, max_frames |-> 1, called |-> "none", fp |-> None]

(* phash.py 22-59: video_fingerprint on the drawn file *)
CallVideoFingerprint ==
    /\ probe.called = "none"
    /\ probe' = [probe EXCEPT
                    !.called = "fingerprint",
                    !.fp = video_fingerprint(probe.video, probe.interval, probe.max_frames)]
    /\ UNCHANGED <<settings, pg_campaign_retention, kf_dirs, cleaner, stores, req, nreq, decision>>

InitFingerprint ==
    /\ settings = [PG_ENABLED |-> FALSE, BUDGET_GUARDRAILS_ENABLED |-> FALSE,
                   AUDIO_ASR_ENABLED |-> FALSE]
    /\ r_features = <<>>
    /\ r_url2vid = [c \in CAMPAIGNS |-> <<>>]
    /\ r_vids = [c \in CAMPAIGNS |-> <<>>]
    /\ r_cost = [c \in CAMPAIGNS |-> [usd |-> 0, llm |-> 0, emb |-> 0]]
    /\ pg_video_features = {}
    /\ pg_campaign_retention = [c \in CAMPAIGNS |-> "none"]
    /\ kf_dirs = {}
    /\ cleaner = IdleCleaner
    /\ req = [r \in {1} |-> IdleReq]
    /\ nreq = 0
    /\ decision = NoDecision
    /\ probe \in {[NoFpProbe EXCEPT !.video = v, !.interval = t, !.max_frames = m] :
                     v \in FpProbeVideos, t \in FpProbeIntervals, m \in 1..FpProbeMaxFrames}

NextFingerprint ==
    \/ CallVideoFingerprint

InitBudget ==
    /\ settings = [PG_ENABLED |-> FALSE, BUDGET_GUARDRAILS_ENABLED |-> TRUE,
                   AUDIO_ASR_ENABLED |-> TRUE]
    /\ r_features = <<>>
    /\ r_url2vid = [c \in CAMPAIGNS |-> <<>>]
    /\ r_vids = [c \in CAMPAIGNS |-> <<>>]
    /\ r_cost \in [CAMPAIGNS -> [usd : UsdStart, llm : LlmStart, emb : EmbStart]]
    /\ pg_video_features = {}
    /\ pg_campaign_retention = [c \in CAMPAIGNS |-> "none"]
    /\ kf_dirs = {}
    /\ cleaner = IdleCleaner
    /\ req = [r \in {1} |-> IdleReq]
    /\ nreq = 0
    /\ decision = NoDecision
    /\ probe = NoProbe

NextBudget ==
    \E c \in CAMPAIGNS :
        \/ GuardDecide(c)
        \/ GuardCommit(c)

(* ------------------------------ behaviours ----------------------------- *)
(* counters of a fresh day, or of a day on which k evaluations were already paid *)
PaidBefore == {0, MAX_LLM_CALLS - 1}
CostAfter(k) == [usd |-> EST_USD * k, llm |-> k, emb |-> 0]

SettingsSet ==
    [PG_ENABLED : BOOLEAN, BUDGET_GUARDRAILS_ENABLED : BOOLEAN, AUDIO_ASR_ENABLED : BOOLEAN]

(* empty video stores, the given campaigns and retention marks, no request in the
   given slots *)
InitStores(campaigns, slots, marks) ==
    /\ settings \in SettingsSet
    /\ pg_campaign_retention \in [campaigns -> marks]
    /\ r_features = <<>>
    /\ r_url2vid = [c \in campaigns |-> <<>>]
    /\ r_vids = [c \in campaigns |-> <<>>]
    /\ \E k \in PaidBefore :
         /\ (k # 0 => settings.BUDGET_GUARDRAILS_ENABLED)
         /\ r_cost = [c \in campaigns |-> CostAfter(k)]
    /\ pg_video_features = {}
    /\ kf_dirs = {}
    /\ cleaner = IdleCleaner
    /\ req = [r \in slots |-> IdleReq]
    /\ nreq = 0
    /\ decision = NoDecision
    /\ probe = NoProbe

(* the single slot of the one-request-at-a-time workload *)
SeqSlots == {1}

(* no campaign has a retention row: nothing in the service writes one *)
InitWith(campaigns, slots) == InitStores(campaigns, slots, {"none"})

Init == InitWith(CAMPAIGNS, SeqSlots)

InitConc == InitWith(1..ConcCampaigns, 1..ConcSlots)

(* the cleaner runs only with PG_ENABLED (main.py 26-28); retention rows come from
   outside the service *)
InitRetention ==
    /\ InitStores(1..ConcCampaigns, SeqSlots, RetentionMarks)
    /\ settings.PG_ENABLED

(* the row evaluate leaves for an approved video of URL u in campaign c (345-356) *)
ApprovedRow(c, u) ==
    PgRow(sha1(u), c, u, Val(DecodedAt(u).fp), DecodedAt(u).seq, get_duration_s(VideoAt(u)))

(* the cleaner alone, on a durable tier filled by earlier evaluations: each URL has
   at most one row (the url column is unique), each campaign any retention mark,
   and some of the stored videos have a keyframe directory *)
InitSweep ==
    /\ settings = [PG_ENABLED |-> TRUE, BUDGET_GUARDRAILS_ENABLED |-> FALSE,
                   AUDIO_ASR_ENABLED |-> FALSE]
    /\ pg_campaign_retention \in [1..SweepCampaigns -> RetentionMarks]
    /\ \E owner \in [1..SweepUrls -> 0..SweepCampaigns] :
         pg_video_features =
             {ApprovedRow(owner[u], u) : u \in {x \in 1..SweepUrls : owner[x] # 0}}
    /\ kf_dirs \in SUBSET {row.video_id : row \in pg_video_features}
    /\ r_features = <<>>
    /\ r_url2vid = [c \in 1..SweepCampaigns |-> <<>>]
    /\ r_vids = [c \in 1..SweepCampaigns |-> <<>>]
    /\ r_cost = [c \in 1..SweepCampaigns |-> CostAfter(0)]
    /\ cleaner = IdleCleaner
    /\ req = [r \in SeqSlots |-> IdleReq]
    /\ nreq = 0
    /\ decision = NoDecision
    /\ probe = NoProbe

NextSweep ==
    \/ _run_once
    \/ SweepDeleteVideos
    \/ SweepRemoveKeyframes
    \/ SweepDeleteRetention
    \/ Shutdown
    \/ Cancelled

Next ==
    \E r \in SeqSlots :
        \/ Start(r)
        \/ Return(r)
        \/ Lookup(r)
        \/ PgLookup(r)
        \/ Repopulate(r)
        \/ DedupeRecent(r)
        \/ CandStep(r)
        \/ Budget(r)
        \/ Prepare(r)
        \/ Summarize(r)
        \/ Judge(r)
        \/ Commit(r)
        \/ Persist(r)
        \/ PersistPg(r)

NextConc ==
    \E r \in 1..ConcSlots :
        \/ StartConc(r)
        \/ Return(r)
        \/ Lookup(r)
        \/ PgLookup(r)
        \/ Repopulate(r)
        \/ DedupeRecent(r)
        \/ CandStep(r)
        \/ Budget(r)
        \/ Prepare(r)
        \/ Summarize(r)
        \/ Judge(r)
        \/ Commit(r)
        \/ Persist(r)
        \/ PersistPg(r)

NextRetention ==
    \/ \E r \in SeqSlots :
        \/ StartConc(r)
        \/ Return(r)
        \/ Lookup(r)
        \/ PgLookup(r)
        \/ Repopulate(r)
        \/ DedupeRecent(r)
        \/ CandStep(r)
        \/ Budget(r)
        \/ Prepare(r)
        \/ Summarize(r)
        \/ Judge(r)
        \/ Commit(r)
        \/ Persist(r)
        \/ PersistPg(r)
    \/ _run_once
    \/ SweepDeleteVideos
    \/ SweepRemoveKeyframes
    \/ SweepDeleteRetention
    \/ Shutdown
    \/ Cancelled

(* one request at a time, over the full workload *)
Spec == Init /\ [][Next]_vars

(* direct calls of the guardrail's decide and commit *)
SpecBudget == InitBudget /\ [][NextBudget]_vars

(* concurrent requests, over the concurrent workload *)
SpecConc == InitConc /\ [][NextConc]_vars

(* evaluations interleaved with the retention cleaner *)
SpecRetention == InitRetention /\ [][NextRetention]_vars

(* the retention cleaner alone *)
SpecSweep == InitSweep /\ [][NextSweep]_vars

(* similarity_percent and the HASH comparison alone, over drawn fingerprints *)
SpecHash == InitHash /\ [][NextHash]_vars

(* sequence_match_percent alone, over drawn sequences *)
SpecSeq == InitSeq /\ [][NextSeq]_vars

(* video_fingerprint alone, over drawn videos *)
SpecFingerprint == InitFingerprint /\ [][NextFingerprint]_vars

(* ------------------------------- claims -------------------------------- *)
HasEvArg(lg, e, a) == \E k \in 1..Len(lg) : lg[k] = Ev(e, a)

URLDuplicate(u) ==
    [kind |-> "response", duplicated |-> TRUE, duplicate_reason |-> "URL",
     duplicate_candidate_url |-> <<u>>, alignment |-> <<>>,
     cost |-> [llm_calls |-> 0, embedding_calls |-> 0, transcription_seconds |-> 0,
               degraded_path |-> FALSE]]

(* the gates applied to the files the two URLs serve *)
HashFiresBetween(u, v) == HashFires(DecodedAt(u).fp, DecodedAt(v).fp)
SeqFiresBetween(u, v) == SeqFires(DecodedAt(u).seq, DecodedAt(v).seq)

(* C1: a row appears in the durable tier only in the step that ends a request for
   that URL whose lookup missed and whose final verdict is approved; the response
   of that request, when one can be built from the judge's object, is the
   non-duplicate, non-degraded, approved one. *)
PersistOnlyWhenApproved ==
    [][\A row \in pg_video_features' \ pg_video_features :
         \E r \in DOMAIN req :
            /\ req[r].pc # "done"
            /\ req'[r].pc = "done"
            /\ req[r].video_url = row.url
            /\ IsNone(req[r].cached_base)
            /\ req[r].cmp_json.kind \in {"json", "untyped"}
            /\ req[r].cmp_json.aproved
            /\ req'[r].resp.kind = "error" <=> req[r].cmp_json.kind = "untyped"
            /\ req'[r].resp.kind = "response"
               => /\ ~req'[r].resp.duplicated
                  /\ ~req'[r].resp.cost.degraded_path
                  /\ Val(req'[r].resp.alignment).aproved]_vars

PersistedApprovedWitness ==
    \E r \in DOMAIN req :
        /\ req[r].pc = "done"
        /\ HasEv(req[r].log, "pg_save")
        /\ req[r].resp.kind = "response"
        /\ ~req[r].resp.duplicated
        /\ Val(req[r].resp.alignment).aproved
        /\ \E row \in pg_video_features : row.url = req[r].video_url

(* C2: no request downloads (or tries to download) the base video more than once. *)
BaseDownloadedAtMostOnce ==
    \A r \in DOMAIN req : CountEv(req[r].log, "dl_base") <= 1

BaseDownloadedOnceWitness ==
    \E r \in DOMAIN req :
        /\ req[r].pc = "done"
        /\ Len(req[r].candidates) >= 2
        /\ CountEv(req[r].log, "dl_base") = 1
        /\ CountEv(req[r].log, "dl_cand") >= 1
        /\ HasEv(req[r].log, "decide")
        /\ HasEv(req[r].log, "pg_save")

(* C3: no step changes or removes an existing durable row, and after every step
   the durable tier holds at most one row per URL. *)
DurableInsertIdempotent ==
    [][/\ \A row \in pg_video_features : row \in pg_video_features'
       /\ \A a, b \in pg_video_features' : a.url = b.url => a = b]_vars

ConcurrentInsertWitness ==
    \E r1, r2 \in DOMAIN req :
        /\ r1 # r2
        /\ req[r1].video_url = req[r2].video_url
        /\ req[r1].campaign_id # req[r2].campaign_id
        /\ HasEv(req[r1].log, "pg_save")
        /\ HasEv(req[r2].log, "pg_save")
        /\ Cardinality({row \in pg_video_features : row.url = req[r1].video_url}) = 1

(* C4: when the lookup missed and a video in the campaign's recency window meets
   the HASH or SEQ threshold against the base video, the dedupe-recent step ends
   the request as a HASH or SEQ duplicate. *)
RecentDuplicateOf(c, u) ==
    \E n \in 1..Len(recent_candidates(c, RECENT_K)) :
        \/ HashFires(DecodedAt(u).fp, Some(recent_candidates(c, RECENT_K)[n].phash64))
        \/ SeqFires(DecodedAt(u).seq, recent_candidates(c, RECENT_K)[n].seq_sig)

RecentWindowGatesApplied ==
    [][\A r \in DOMAIN req :
         (/\ req[r].pc = "recent"
          /\ req'[r] # req[r]
          /\ IsNone(req[r].cached_base)
          /\ RecentDuplicateOf(req[r].campaign_id, req[r].video_url))
         => (/\ req'[r].pc = "done"
             /\ req'[r].resp.duplicated
             /\ req'[r].resp.duplicate_reason \in {"HASH", "SEQ"})]_vars

(* C5: the events of the candidates appear in list order and, per candidate, in the
   order URL, (download), HASH, SEQ; SEQ is evaluated only where HASH does not
   fire; an evaluated gate that fires is the last event of the request, and the
   response then carries that gate's reason and that candidate's URL. *)
GateRank(e) ==
    CASE e = "gate_url" -> 1 [] e = "dl_cand" -> 2 [] e = "gate_hash" -> 3
      [] e = "gate_seq" -> 4 [] OTHER -> 0

GateFiresAt(q, k) ==
    LET e == q.log[k] IN
    \/ e.ev = "gate_url" /\ q.candidates[e.arg] = q.video_url
    \/ e.ev = "gate_hash" /\ HashFiresBetween(q.video_url, q.candidates[e.arg])
    \/ e.ev = "gate_seq" /\ SeqFiresBetween(q.video_url, q.candidates[e.arg])

GateReason(e) ==
    CASE e = "gate_url" -> "URL" [] e = "gate_hash" -> "HASH" [] e = "gate_seq" -> "SEQ"
      [] OTHER -> "null"

GateOrder ==
    \A r \in DOMAIN req :
        LET q == req[r]
            lg == q.log
        IN  /\ \A a, b \in 1..Len(lg) :
                 (a < b /\ lg[a].arg > 0 /\ lg[b].arg > 0)
                 => \/ lg[a].arg < lg[b].arg
                    \/ lg[a].arg = lg[b].arg /\ GateRank(lg[a].ev) < GateRank(lg[b].ev)
            /\ \A a \in 1..Len(lg) :
                 /\ lg[a].ev = "gate_hash" =>
                        /\ HasEvArg(lg, "gate_url", lg[a].arg)
                        /\ q.candidates[lg[a].arg] # q.video_url
                 /\ lg[a].ev = "gate_seq" =>
                        /\ HasEvArg(lg, "gate_hash", lg[a].arg)
                        /\ ~HashFiresBetween(q.video_url, q.candidates[lg[a].arg])
                 /\ GateFiresAt(q, a) =>
                        /\ a = Len(lg)
                        /\ q.pc = "done"
                        /\ q.resp.kind = "response"
                        /\ q.resp.duplicated
                        /\ q.resp.duplicate_reason = GateReason(lg[a].ev)
                        /\ q.resp.duplicate_candidate_url = <<q.candidates[lg[a].arg]>>
            /\ (q.pc = "done" /\ q.resp.duplicated /\ IsNone(q.cached_base))
                 => (Len(lg) > 0 /\ GateFiresAt(q, Len(lg)))

SecondCandidateSeqWitness ==
    \E r \in DOMAIN req :
        /\ req[r].pc = "done"
        /\ req[r].resp.duplicated
        /\ req[r].resp.duplicate_reason = "SEQ"
        /\ Len(req[r].candidates) >= 2
        /\ req[r].resp.duplicate_candidate_url = <<req[r].candidates[2]>>
        /\ HasEvArg(req[r].log, "gate_url", 1)
        /\ HasEvArg(req[r].log, "gate_hash", 2)
        /\ HasEvArg(req[r].log, "gate_seq", 2)

(* C6: a base URL found at lookup (fast tier, or durable tier when configured) and
   a candidate textually equal to the base URL both end the request as a URL
   duplicate of that URL; after a lookup hit the request does nothing but the
   durable read and the write-back to the fast tier. *)
URLIdentityGate ==
    [][\A r \in DOMAIN req :
         LET q == req[r]
             q1 == req'[r]
         IN  /\ (q.pc = "lookup" /\ q1 # q /\ q1.resp.kind # "error"
                 /\ ~IsNone(get_features_by_url(q.campaign_id, q.video_url)))
                => ~IsNone(q1.cached_base)
             /\ (q.pc = "pg_lookup" /\ q1 # q /\ q1.resp.kind # "error"
                 /\ ~IsNone(pg_get_by_url(q.video_url)))
                => ~IsNone(q1.cached_base)
             /\ ~IsNone(q1.cached_base)
                => /\ q1.pc \in {"repopulate", "done"}
                   /\ \A k \in 1..Len(q1.log) : q1.log[k].ev \in {"pg_get", "repopulate"}
                   /\ q1.pc = "done" => q1.resp = URLDuplicate(q1.video_url)
             /\ (q.pc = "cands" /\ q1 # q /\ q.candidates[q.i] = q.video_url)
                => /\ q1.pc = "done"
                   /\ q1.resp = URLDuplicate(q.video_url)]_vars

DurableLookupHitWitness ==
    \E r \in DOMAIN req :
        /\ req[r].pc = "done"
        /\ req[r].resp = URLDuplicate(req[r].video_url)
        /\ HasEv(req[r].log, "repopulate")
        /\ ~HasEv(req[r].log, "dl_base")

(* C7: whenever the loop reaches a candidate that serves the same bytes as the
   base video, the request ends as a duplicate with reason URL or HASH and the
   SEQ gate is not evaluated for that candidate. *)
IdenticalPairReached(q, k) ==
    /\ q.pc = "done"
    /\ q.resp.kind = "response"
    /\ k \in 1..Len(q.candidates)
    /\ HasEvArg(q.log, "gate_url", k)
    /\ VideoAt(q.candidates[k]) = VideoAt(q.video_url)

IdenticalPairVerdict(q, k) ==
    /\ q.resp.duplicated
    /\ q.resp.duplicate_reason \in {"URL", "HASH"}
    /\ q.resp.duplicate_candidate_url = <<q.candidates[k]>>
    /\ ~HasEvArg(q.log, "gate_seq", k)
    /\ ~HasEv(q.log, "summarize")

IdenticalVideosStopAtHash ==
    \A r \in DOMAIN req : \A k \in 1..MaxCands :
        IdenticalPairReached(req[r], k) => IdenticalPairVerdict(req[r], k)

(* C7, amended: the same, for a video that decodes to at least one frame and a
   candidate whose features were obtained (cached, or downloaded successfully). *)
IdenticalDecodableVideosStopAtHash ==
    \A r \in DOMAIN req : \A k \in 1..MaxCands :
        (/\ IdenticalPairReached(req[r], k)
         /\ Len(VideoAt(req[r].video_url)) > 0
         /\ \/ req[r].candidates[k] = req[r].video_url
            \/ HasEvArg(req[r].log, "gate_hash", k))
        => IdenticalPairVerdict(req[r], k)

IdenticalPairHashWitness ==
    \E r \in DOMAIN req :
        /\ IdenticalPairReached(req[r], 1)
        /\ req[r].candidates[1] # req[r].video_url
        /\ req[r].resp.duplicated
        /\ req[r].resp.duplicate_reason = "HASH"
        /\ HasEvArg(req[r].log, "dl_cand", 1)

(* C8: the budget decision, the summarizer and the judge are called only after a
   lookup miss and after every candidate has been examined, and a request that
   ends as a duplicate has called none of them. *)
PaidEvents == {"decide", "summarize", "judge"}

BudgetAfterGates ==
    \A r \in DOMAIN req :
        LET q == req[r]
            lg == q.log
        IN  /\ \A a \in 1..Len(lg) :
                 lg[a].ev \in PaidEvents
                 => /\ IsNone(q.cached_base)
                    /\ q.i > Len(q.candidates)
                    /\ \A k \in 1..Len(q.candidates) : HasEvArg(lg, "gate_url", k)
                    /\ \A b \in 1..Len(lg) : lg[b].arg > 0 => b < a
            /\ (q.pc = "done" /\ q.resp.duplicated)
                 => \A a \in 1..Len(lg) : lg[a].ev \notin PaidEvents

JudgedAfterCandidatesWitness ==
    \E r \in DOMAIN req :
        /\ req[r].pc = "done"
        /\ Len(req[r].candidates) >= 2
        /\ HasEvArg(req[r].log, "gate_seq", 2)
        /\ HasEv(req[r].log, "decide")
        /\ HasEv(req[r].log, "judge")

(* C9: a degrade decision ends the request at once with the normal, non-approved,
   degraded response with zero model calls; the summarizer and the judge have not
   been called and no store (fast tier, durable tier, budget counters) changes. *)
DegradeIsGraceful ==
    [][\A r \in DOMAIN req :
         (/\ req[r].pc = "budget"
          /\ req'[r] # req[r]
          /\ settings.BUDGET_GUARDRAILS_ENABLED
          /\ decide(req[r].campaign_id, EST_USD, [llm |-> 1, emb |-> 0]) = "degrade"
          /\ req'[r].resp.kind # "error")
         => /\ req'[r].pc = "done"
            /\ req'[r].resp.kind = "response"
            /\ ~req'[r].resp.duplicated
            /\ ~Val(req'[r].resp.alignment).aproved
            /\ req'[r].resp.cost.degraded_path
            /\ req'[r].resp.cost.llm_calls = 0
            /\ \A a \in 1..Len(req'[r].log) :
                 req'[r].log[a].ev \notin {"summarize", "judge", "commit", "redis_save", "pg_save"}
            /\ UNCHANGED stores]_vars

DegradedResponseWitness ==
    \E r \in DOMAIN req :
        /\ req[r].pc = "done"
        /\ req[r].resp.kind = "response"
        /\ req[r].resp.cost.degraded_path
        /\ HasEv(req[r].log, "decide")
        /\ r_cost[req[r].campaign_id].llm = MAX_LLM_CALLS

(* C10: decide answers degrade exactly when the spent USD plus the estimate, or the
   LLM calls plus the requested ones, or the embedding calls plus the requested
   ones, exceed their cap, and allow otherwise; so it degrades at llm_calls =
   MAX_LLM_CALLS with need.llm = 1 and at 4.99 + 0.02 USD, and allows at 0 USD. *)
OverCap(c, est_usd, need) ==
    \/ c.usd + est_usd > USD_DAY_CAP
    \/ c.llm + need.llm > MAX_LLM_CALLS
    \/ c.emb + need.emb > MAX_EMB_CALLS

DecideDegradesIffOverCap ==
    [][(nreq' # nreq /\ r_cost' = r_cost) =>
         LET c == r_cost[decision'.campaign_id]
             d == decision'
         IN  /\ d.action \in {"allow", "degrade"}
             /\ d.action = "degrade" <=> OverCap(c, d.est_usd, d.need)
             /\ (c.llm = MAX_LLM_CALLS /\ d.need.llm = 1) => d.action = "degrade"
             /\ (c.usd = USD_DAY_CAP - 1 /\ d.est_usd = EST_USD) => d.action = "degrade"
             /\ (c = [usd |-> 0, llm |-> 0, emb |-> 0]) => d.action = "allow"
             /\ (c.usd + d.est_usd = USD_DAY_CAP /\ c.llm + d.need.llm = MAX_LLM_CALLS
                 /\ c.emb + d.need.emb <= MAX_EMB_CALLS) => d.action = "allow"]_vars

LlmCapReachedWitness ==
    /\ decision.action = "degrade"
    /\ decision.need.llm = 1
    /\ r_cost[decision.campaign_id].llm = MAX_LLM_CALLS
    /\ r_cost[decision.campaign_id].usd + decision.est_usd <= USD_DAY_CAP
    /\ r_cost[decision.campaign_id].emb + decision.need.emb <= MAX_EMB_CALLS

(* C11: within a (campaign, day) bucket no decide or commit lowers usd_spent,
   llm_calls or embedding_calls, and decide leaves the counters as they are. *)
CountersNeverDecrease ==
    [][/\ \A c \in DOMAIN r_cost :
            /\ r_cost'[c].usd >= r_cost[c].usd
            /\ r_cost'[c].llm >= r_cost[c].llm
            /\ r_cost'[c].emb >= r_cost[c].emb
       /\ decision' # decision => r_cost' = r_cost]_vars

CommittedThenDecidedWitness ==
    \E c \in DOMAIN r_cost :
        /\ decision.campaign_id = c
        /\ decision.action = "allow"
        /\ r_cost[c].usd \notin UsdStart
        /\ r_cost[c].llm \notin LlmStart
        /\ r_cost[c].emb \notin EmbStart

(* C12: whatever the interleaving of concurrent requests, each completed commit
   adds exactly its amounts to the counters of its campaign as they are at that
   moment, and nothing else changes a counter: no increment is lost. *)
Committed(r) ==
    /\ req[r].pc = "commit"
    /\ req'[r].pc = "persist"
    /\ HasEv(req'[r].log, "commit")

CommitAddsExactly ==
    [][\A c \in DOMAIN r_cost :
         LET n == Cardinality({r \in DOMAIN req : Committed(r) /\ req[r].campaign_id = c})
         IN  /\ \A r \in DOMAIN req : Committed(r) => req[r].llm_calls = 1
             /\ r_cost'[c] = [usd |-> r_cost[c].usd + EST_USD * n,
                              llm |-> r_cost[c].llm + n,
                              emb |-> r_cost[c].emb]]_vars

ConcurrentCommitsWitness ==
    \E r1, r2 \in DOMAIN req :
        /\ r1 # r2
        /\ req[r1].campaign_id = req[r2].campaign_id
        /\ HasEv(req[r1].log, "commit")
        /\ HasEv(req[r2].log, "commit")
        /\ HasEv(req[r1].log, "decide")
        /\ \E k \in PaidBefore :
             r_cost[req[r1].campaign_id] = CostAfter(k + 2)

(* the fast-tier entries of campaign c: the keys of its url-to-video_id map whose
   video has a features hash *)
FastEntries(c) == {h \in DOMAIN r_url2vid[c] : r_url2vid[c][h] \in DOMAIN r_features}

FastFeatures(c, h) == r_features[r_url2vid[c][h]]

SameFeatures(f, row) ==
    /\ row.url = f.url
    /\ row.phash64 = f.phash64_b
    /\ row.seq_sig = f.seq_b
    /\ row.seq_rows = f.seq_rows
    /\ row.seq_cols = f.seq_cols

Backed(c, h) == \E row \in pg_video_features : SameFeatures(FastFeatures(c, h), row)

Unbacked(c, h) == h \in FastEntries(c) /\ ~Backed(c, h)

(* C13: with a durable tier configured, every fast-tier entry has in every
   reachable state a durable row for the same URL with the same fingerprint and
   sequence. *)
FastTierReconstructible ==
    settings.PG_ENABLED =>
        \A c \in DOMAIN r_url2vid : \A h \in FastEntries(c) : Backed(c, h)

(* C13, amended: a fast-tier entry and the durable row of its URL, when both exist,
   carry the same fingerprint and sequence; an entry comes to be without its row
   only when evaluate writes it ahead of its durable insert, when a write-back
   follows a row deleted after the durable lookup, or when a sweep deletes the
   rows of an expired campaign. *)
UnbackedOnlyByPendingInsertOrSweep ==
    [][settings.PG_ENABLED =>
         \A c \in DOMAIN r_url2vid' : \A h \in FastEntries(c)' :
            /\ \A row \in pg_video_features' :
                   row.url = FastFeatures(c, h)'.url => SameFeatures(FastFeatures(c, h)', row)
            /\ (Unbacked(c, h)' /\ ~Unbacked(c, h))
               => \/ \E r \in DOMAIN req :
                        /\ req[r].pc = "persist"
                        /\ req'[r] # req[r]
                        /\ req[r].campaign_id = c
                        /\ sha1(req[r].video_url) = h
                  \/ \E r \in DOMAIN req :
                        /\ req[r].pc = "repopulate"
                        /\ req'[r] # req[r]
                        /\ req[r].campaign_id = c
                        /\ sha1(req[r].video_url) = h
                        /\ IsNone(pg_get_by_url(req[r].video_url))
                  \/ \E cid \in DOMAIN pg_campaign_retention :
                        /\ pg_campaign_retention[cid] = "expired"
                        /\ pg_video_features' # pg_video_features
                        /\ pg_video_features' =
                               {row \in pg_video_features : row.campaign_id # cid}]_vars

BackedEntryWitness ==
    \E r \in DOMAIN req :
        /\ req[r].pc = "done"
        /\ HasEv(req[r].log, "redis_save")
        /\ HasEv(req[r].log, "pg_save")
        /\ sha1(req[r].video_url) \in FastEntries(req[r].campaign_id)
        /\ Backed(req[r].campaign_id, sha1(req[r].video_url))
        /\ pg_campaign_retention[req[r].campaign_id] = "future"

(* C14: the durable tier is read only after a fast-tier miss and only when it is
   configured; a durable hit is written back to the fast tier before the response
   is produced, and once written back the fast-tier read of the same campaign and
   URL returns the fingerprint and sequence of the durable row, byte for byte. *)
ReadPathCoherent ==
    [][\A r \in DOMAIN req :
         LET q == req[r]
             q1 == req'[r]
             h == sha1(q.video_url)
         IN  /\ (q.pc = "lookup" /\ q1.pc = "pg_lookup")
                => /\ IsNone(get_features_by_url(q.campaign_id, q.video_url))
                   /\ settings.PG_ENABLED
             /\ (~HasEv(q.log, "pg_get") /\ HasEv(q1.log, "pg_get")) => q.pc = "pg_lookup"
             /\ (q.pc = "pg_lookup" /\ q1.pc \notin {"pg_lookup", "done"})
                => (IsNone(pg_get_by_url(q.video_url)) <=> q1.pc = "recent")
             /\ (q.pc = "repopulate" /\ q1 # q)
                => /\ q1.pc = "done"
                   /\ q1.log[Len(q1.log)] = Ev("repopulate", 0)
                   /\ \/ UNCHANGED <<r_features, r_url2vid, r_vids>>
                      \/ /\ h \in FastEntries(q.campaign_id)'
                         /\ \E row \in pg_video_features' :
                                /\ row.url = q.video_url
                                /\ SameFeatures(FastFeatures(q.campaign_id, h)', row)
                         /\ ~IsNone(get_features_by_url(q.campaign_id, q.video_url)')
                         /\ LET got == Val(get_features_by_url(q.campaign_id, q.video_url)')
                                rec == Val(pg_get_by_url(q.video_url))
                            IN  /\ got.phash64 = rec.phash64
                                /\ got.seq_sig = rec.seq_sig
                                /\ got.url = rec.url]_vars

RepopulatedReadWitness ==
    \E r \in DOMAIN req :
        /\ req[r].pc = "done"
        /\ HasEv(req[r].log, "repopulate")
        /\ ~IsNone(get_features_by_url(req[r].campaign_id, req[r].video_url))
        /\ Val(get_features_by_url(req[r].campaign_id, req[r].video_url)).seq_sig
             = Val(req[r].cached_base).seq_sig
        /\ Len(Val(req[r].cached_base).seq_sig) > 1

(* C15: a request that ends at the summarizer call or at the judge call, the call
   having raised or having returned nothing, ends with a well-formed response
   that is not a duplicate, whose alignment is not approved and explains itself,
   and whose cost reports the calls made so far. *)
SummarizerJudgeFailureNonFatal ==
    [][\A r \in DOMAIN req :
         (req[r].pc \in {"summarize", "judge"} /\ req'[r].pc = "done")
         => /\ req'[r].resp.kind = "response"
            /\ ~req'[r].resp.duplicated
            /\ ~IsNone(req'[r].resp.alignment)
            /\ ~Val(req'[r].resp.alignment).aproved
            /\ Val(req'[r].resp.alignment).reasons \in {"no_summary", "no_compare"}
            /\ req'[r].resp.cost.llm_calls = req[r].llm_calls]_vars

(* C16: a judge answer that does not parse into a valid {match_percent, aproved,
   reasons} result (text that is no JSON, or an object whose match_percent is no
   number) ends the request with a response whose alignment is not approved, and
   the steps after the parse write nothing to either tier. *)
UnparsedJudge(q) == q.cmp_json.kind \in {"invalid", "untyped"}

JudgeParseFailureIsConservative ==
    [][\A r \in DOMAIN req :
         (req[r].pc \in {"persist", "persist_pg"} /\ UnparsedJudge(req[r]))
         => /\ UNCHANGED <<r_features, r_url2vid, r_vids, pg_video_features>>
            /\ req'[r].pc = "done"
               => /\ req'[r].resp.kind = "response"
                  /\ ~Val(req'[r].resp.alignment).aproved]_vars

(* C17: a request ends in an error surfaced to the caller only when the download
   of the base video failed: the last thing an errored request did is a base
   download that left it without a base file. *)
BaseDownloadFailed(q) ==
    /\ Len(q.log) > 0
    /\ q.log[Len(q.log)] = Ev("dl_base", 0)
    /\ IsNone(q.base_path)

ErrorOnlyOnBaseDownloadFailure ==
    \A r \in DOMAIN req :
        (req[r].pc = "done" /\ req[r].resp.kind = "error") => BaseDownloadFailed(req[r])

(* C18: an iteration whose candidate download fails changes nothing but the loop
   position: the request goes on to the next candidate or to the budget step,
   without a response and without touching a store. A failed base download ends
   the request at once with an error; that request has made no budget commit and
   no write to either tier. *)
LastEv(q) == IF Len(q.log) = 0 THEN Ev("none", 0) ELSE q.log[Len(q.log)]

DownloadFailures ==
    [][\A r \in DOMAIN req :
         LET q == req[r]
             q1 == req'[r]
         IN  /\ (q.pc = "cands" /\ LastEv(q1) = Ev("dl_cand", q.i))
                => /\ q1.i = q.i + 1
                   /\ q1.pc = IF q1.i <= Len(q.candidates) THEN "cands" ELSE "budget"
                   /\ q1.resp = NoResp
                   /\ UNCHANGED stores
             /\ (q1 # q /\ BaseDownloadFailed(q1))
                => /\ q1.pc = "done"
                   /\ q1.resp = ErrorResp
                   /\ ~HasEv(q1.log, "commit")
                   /\ ~HasEv(q1.log, "redis_save")
                   /\ ~HasEv(q1.log, "pg_save")
                   /\ UNCHANGED stores]_vars

SkippedCandidateWitness ==
    \E r \in DOMAIN req :
        /\ req[r].pc = "done"
        /\ req[r].resp.kind = "response"
        /\ Len(req[r].candidates) >= 2
        /\ HasEvArg(req[r].log, "dl_cand", 1)
        /\ ~HasEvArg(req[r].log, "gate_hash", 1)
        /\ HasEvArg(req[r].log, "gate_hash", 2)

(* C19: a durable tier that is configured and fails does not fail the request:
   the step that reads the durable tier at lookup never ends the request in an
   error, and the step that inserts into it ends the request with a response
   whenever the judge's object is a valid one. *)
DurableTierFailureDegrades ==
    [][\A r \in DOMAIN req :
         /\ req[r].pc = "pg_lookup" => req'[r].resp.kind # "error"
         /\ (req[r].pc = "persist_pg" /\ req[r].cmp_json.kind = "json" /\ req'[r].pc = "done")
            => req'[r].resp.kind = "response"]_vars

(* C20: when the base or the candidate has no decodable frame, an iteration that
   evaluates the gates for the pair fires neither HASH nor SEQ and moves on to
   the next candidate or to the budget step without a response; a request whose
   base has no decodable frame never writes to either tier, and its persistence
   step ends it with a response whenever the judge's object is a valid one. *)
Undecodable(u) == IsNone(DecodedAt(u).fp) /\ Len(DecodedAt(u).seq) = 0

FingerprintAbsentSkipsGates ==
    [][\A r \in DOMAIN req :
         LET q == req[r]
             q1 == req'[r]
         IN  /\ (/\ q.pc = "cands"
                 /\ HasEvArg(q1.log, "gate_hash", q.i)
                 /\ Undecodable(q.video_url) \/ Undecodable(q.candidates[q.i]))
                => /\ q1.resp = NoResp
                   /\ q1.i = q.i + 1
                   /\ q1.pc = IF q1.i <= Len(q.candidates) THEN "cands" ELSE "budget"
                   /\ LastEv(q1) = Ev("gate_seq", q.i)
             /\ (q.pc \notin {"idle", "done"} /\ Undecodable(q.video_url))
                => /\ UNCHANGED <<r_features, r_url2vid, r_vids, pg_video_features>>
                   /\ q1.pc # "persist_pg"
                   /\ (q.pc = "persist" /\ q.cmp_json.kind = "json")
                      => /\ q1.pc = "done"
                         /\ q1.resp.kind = "response"]_vars

UndecodableBaseApprovedWitness ==
    \E r \in DOMAIN req :
        /\ req[r].pc = "done"
        /\ Undecodable(req[r].video_url)
        /\ Len(req[r].candidates) >= 1
        /\ ~Undecodable(req[r].candidates[1])
        /\ HasEvArg(req[r].log, "gate_seq", 1)
        /\ req[r].resp.kind = "response"
        /\ ~req[r].resp.duplicated
        /\ Val(req[r].resp.alignment).aproved
        /\ get_features_by_url(req[r].campaign_id, req[r].video_url) = None

(* C21: within one request the base fingerprint, the base sequence, the keyframes
   and the transcript are each computed at most once, whatever the number of
   candidates and whatever the first computation returned. *)
BaseArtifactsComputedOnce ==
    \A r \in DOMAIN req :
        /\ CountEv(req[r].log, "fp_base") <= 1
        /\ CountEv(req[r].log, "seq_base") <= 1
        /\ CountEv(req[r].log, "keyframes") <= 1
        /\ CountEv(req[r].log, "asr") <= 1

(* C22: no step of the cleaner changes the durable rows, the keyframe directories
   or the retention marker of a campaign whose end_date has not passed; and when
   a sweep has run through without a failing step, no campaign whose end_date
   had passed keeps a durable row or its retention marker. *)
RowsOf(rows, c) == {row \in rows : row.campaign_id = c}
DirsOf(dirs, rows, c) == dirs \cap {row.video_id : row \in RowsOf(rows, c)}
ExpiredAt(marks) == {c \in DOMAIN marks : marks[c] = "expired"}

SweepDeletesExpiredOnly ==
    [][/\ \A c \in DOMAIN pg_campaign_retention \ ExpiredAt(pg_campaign_retention) :
            /\ RowsOf(pg_video_features', c) = RowsOf(pg_video_features, c)
            /\ pg_campaign_retention'[c] = pg_campaign_retention[c]
            /\ DirsOf(kf_dirs', pg_video_features, c) = DirsOf(kf_dirs, pg_video_features, c)
       /\ (cleaner.pc # "sleep" /\ cleaner'.pc = "sleep" /\ cleaner'.clean)
          => \A c \in ExpiredAt(cleaner.before.marks) :
                /\ RowsOf(pg_video_features', c) = {}
                /\ pg_campaign_retention'[c] = "none"]_vars

ExpiredSweptFutureKeptWitness ==
    /\ cleaner.pc = "sleep"
    /\ cleaner.sweeps = 1
    /\ cleaner.clean
    /\ \E c, d \in DOMAIN pg_campaign_retention :
         /\ cleaner.before.marks[c] = "expired"
         /\ RowsOf(cleaner.before.rows, c) # {}
         /\ RowsOf(pg_video_features, c) = {}
         /\ pg_campaign_retention[c] = "none"
         /\ cleaner.before.marks[d] = "future"
         /\ pg_campaign_retention[d] = "future"
         /\ RowsOf(pg_video_features, d) # {}
         /\ DirsOf(kf_dirs, pg_video_features, d) # {}

(* C23: the three steps of a sweep for one expired campaign are independently
   best-effort: whatever the outcome of a step, the cleaner goes on to the next
   step of that campaign, and after the last step to the next expired campaign
   of the same sweep. *)
SweepStepsBestEffort ==
    [][(cleaner' # cleaner /\ cleaner'.shutdown = cleaner.shutdown) =>
         /\ cleaner.pc = "videos"
            => cleaner'.pc = "keyframes" /\ cleaner'.k = cleaner.k
         /\ cleaner.pc = "keyframes"
            => cleaner'.pc = "retention" /\ cleaner'.k = cleaner.k
         /\ (cleaner.pc = "retention" /\ cleaner.k < Len(cleaner.expired))
            => cleaner'.pc = "videos" /\ cleaner'.k = cleaner.k + 1]_vars

(* C24: a sweep is idempotent. The state one sweep leaves when each of its steps
   succeeds is a fixed point of sweeping, and whenever a sweep has run through
   without a failing step, be it the first or a re-run after a partial one, the
   durable rows, the keyframe directories and the retention markers are those of
   a single complete sweep of the state the cleaner started from. *)
SweepToCompletion(S) ==
    LET gone == {row \in S.rows : row.campaign_id \in ExpiredAt(S.marks)}
    IN  [rows  |-> S.rows \ gone,
         marks |-> [c \in DOMAIN S.marks |-> IF c \in ExpiredAt(S.marks) THEN "none"
                                              ELSE S.marks[c]],
         dirs  |-> S.dirs \ {row.video_id : row \in gone}]

DurableState ==
    [rows |-> pg_video_features, marks |-> pg_campaign_retention, dirs |-> kf_dirs]

SweepIdempotent ==
    /\ SweepToCompletion(SweepToCompletion(DurableState)) = SweepToCompletion(DurableState)
    /\ (cleaner.pc = "sleep" /\ cleaner.sweeps >= 1 /\ cleaner.clean)
       => DurableState = SweepToCompletion(cleaner.before)

(* C25: a cancellation takes effect only between campaigns: the task never ends
   in the middle of the delete sequence of a campaign, and once the shutdown has
   been requested the sweep in progress takes up no further campaign. *)
CancelBetweenCampaigns ==
    [][/\ (cleaner.pc # "cancelled" /\ cleaner'.pc = "cancelled")
          => cleaner.pc \notin {"keyframes", "retention"}
       /\ ~(cleaner.shutdown /\ cleaner.pc # "videos" /\ cleaner'.pc = "videos")]_vars

(* C26: the step that ends a request with duplicated=true writes to no store, and
   the request has made no budget commit and no persistence write before it. *)
WritesLogged(q) ==
    HasEv(q.log, "commit") \/ HasEv(q.log, "redis_save") \/ HasEv(q.log, "pg_save")

EndsDuplicated(r) ==
    /\ req[r].pc # "done"
    /\ req'[r].pc = "done"
    /\ req'[r].resp.duplicated

TempDirRemovedOnEveryExit ==
    \A r \in DOMAIN req :
        /\ req[r].tmp <=> req[r].pc \notin {"idle", "done"}
        /\ req[r].pc = "done" => req[r].resp.kind \in {"response", "error"}
        /\ req[r].pc = "lookup"
           => /\ IsNone(req[r].base_path)
              /\ Len(req[r].frames_b64) = 0
              /\ IsNone(req[r].transcript_text)

ErrorAfterDownloadWitness ==
    \E r \in DOMAIN req :
        /\ req[r].pc = "done"
        /\ req[r].resp.kind = "error"
        /\ ~IsNone(req[r].base_path)
        /\ HasEv(req[r].log, "wav")
        /\ ~req[r].tmp
        /\ nreq = MaxReqs

(* C28: every response that carries an alignment has its match_percent within
   0..100, whatever the judge answered. *)
MatchPercentInRange ==
    \A r \in DOMAIN req :
        (req[r].resp.kind = "response" /\ ~IsNone(req[r].resp.alignment))
        => /\ Val(req[r].resp.alignment).match_percent >= 0
           /\ Val(req[r].resp.alignment).match_percent <= 100

(* C29: similarity_percent is reflexive and symmetric: a fingerprint compared
   with itself gives 100.00, and a pair gives the same value in both orders,
   pairs of different lengths included. *)
HashSimilarityReflexiveSymmetric ==
    probe.called = "similarity"
    => /\ ~IsNone(probe.fp1) => probe.self = 10000
       /\ probe.fwd = probe.bwd

DifferentLengthsComparedWitness ==
    /\ probe.called = "similarity"
    /\ ~IsNone(probe.fp1) /\ ~IsNone(probe.fp2)
    /\ Len(Val(probe.fp1)) < Len(Val(probe.fp2))
    /\ probe.self = 10000
    /\ probe.fwd = probe.bwd
    /\ probe.fwd > 0 /\ probe.fwd < 10000

ProbeCommonLen == Min(Len(Val(probe.fp1)), Len(Val(probe.fp2)))
ProbeDistance ==
    _hamming(SubSeq(Val(probe.fp1), 1, ProbeCommonLen),
             SubSeq(Val(probe.fp2), 1, ProbeCommonLen))
Abs(x) == IF x < 0 THEN 0 - x ELSE x

(* C30: the HASH comparison fires iff the similarity, 100 * (1 - hamming/len)
   rounded to the nearest hundredth, is at least HASH_DUP_THRESHOLD; a 64-bit
   pair at Hamming distance 13 has similarity 79.69 and does not fire at 95. *)
HashGateThreshold ==
    (probe.called = "gate" /\ ~IsNone(probe.fp1) /\ ~IsNone(probe.fp2))
    => /\ 2 * Abs(probe.fwd * ProbeCommonLen
                   - 10000 * (ProbeCommonLen - ProbeDistance)) <= ProbeCommonLen
       /\ probe.fires <=> probe.fwd >= HASH_DUP_THRESHOLD
       /\ (ProbeCommonLen = 64 /\ ProbeDistance = 13)
              => (probe.fwd = 7969 /\ ~probe.fires)

Distance13NotFlaggedWitness ==
    /\ probe.called = "gate"
    /\ ~IsNone(probe.fp1) /\ ~IsNone(probe.fp2)
    /\ ProbeCommonLen = 64
    /\ ProbeDistance = 13
    /\ HASH_DUP_THRESHOLD = 9500
    /\ ~probe.fires

(* index i of seqA is matched: some position of seqB within the window around i,
   clamped to seqB, is within bit_tolerance of seqA[i] *)
ProbeMatched ==
    {i \in 1..Len(probe.seqA) :
        \E j \in 1..Len(probe.seqB) :
            /\ j >= i - probe.window
            /\ j <= i + probe.window
            /\ _hamming(probe.seqA[i], probe.seqB[j]) <= probe.bit_tolerance}

(* C31 as stated: the result is exactly 100 * matches / len(seqA), 0 when either
   input is empty, and 100.00 for a non-empty sequence against itself with
   bit_tolerance 0 and window 0. *)
SequenceSimilarityExact ==
    probe.called = "sequence"
    => /\ (Len(probe.seqA) = 0 \/ Len(probe.seqB) = 0) => probe.percent = 0
       /\ (Len(probe.seqA) > 0 /\ Len(probe.seqB) > 0)
              => probe.percent * Len(probe.seqA) = 10000 * Cardinality(ProbeMatched)
       /\ Len(probe.seqA) > 0 => probe.self = 10000

(* C31: the result is 100 * matches / len(seqA) rounded to the nearest
   hundredth, where index i is matched iff some seqB[j] with j within window of
   i, clamped to seqB, is within bit_tolerance; 0 when either input is empty;
   100.00 for a non-empty sequence against itself with bit_tolerance 0 and
   window 0. *)
SequenceSimilarityRounded ==
    probe.called = "sequence"
    => /\ (Len(probe.seqA) = 0 \/ Len(probe.seqB) = 0) => probe.percent = 0
       /\ (Len(probe.seqA) > 0 /\ Len(probe.seqB) > 0)
              => 2 * Abs(probe.percent * Len(probe.seqA)
                         - 10000 * Cardinality(ProbeMatched)) <= Len(probe.seqA)
       /\ Len(probe.seqA) > 0 => probe.self = 10000

EmptyWindowNoMatchWitness ==
    /\ probe.called = "sequence"
    /\ Len(probe.seqB) > 0
    /\ Len(probe.seqA) > Len(probe.seqB) + probe.window
    /\ probe.bit_tolerance = HashBits
    /\ probe.percent = 6667
    /\ probe.self = 10000

WellFormed(resp) ==
    /\ resp.duplicated
          => /\ resp.duplicate_reason \in {"URL", "HASH", "SEQ"}
             /\ ~IsNone(resp.duplicate_candidate_url)
             /\ IsNone(resp.alignment)
             /\ resp.cost = ZeroCost
    /\ ~resp.duplicated
          => /\ resp.duplicate_reason = "null"
             /\ IsNone(resp.duplicate_candidate_url)
             /\ ~IsNone(resp.alignment)

(* C32: every EvaluateResponse is well-formed: a duplicate has reason URL, HASH
   or SEQ, a candidate url, no alignment, zero cost counters and
   degraded_path false; a non-duplicate has no reason, no candidate url and an
   alignment; degraded_path is true only when the budget decision of that
   request was degrade. *)
ResponseWellFormed ==
    [][\A r \in DOMAIN req :
         (req'[r].resp.kind = "response" /\ req'[r].resp # req[r].resp)
         => /\ WellFormed(req'[r].resp)
            /\ req'[r].resp.cost.degraded_path
                  => /\ req[r].pc = "budget"
                     /\ settings.BUDGET_GUARDRAILS_ENABLED
                     /\ decide(req[r].campaign_id, EST_USD, [llm |-> 1, emb |-> 0])
                            = "degrade"]_vars

WellFormedSeqDuplicateWitness ==
    \E r \in DOMAIN req :
        /\ req[r].pc = "done"
        /\ req[r].resp.kind = "response"
        /\ req[r].resp.duplicated
        /\ req[r].resp.duplicate_reason = "SEQ"
        /\ WellFormed(req[r].resp)

(* the positions of the file that the sampling loop reads: t = 0, interval,
   2 * interval, ... while a frame exists and fewer than max_frames were read *)
ProbeSampled ==
    {p \in 1..Len(probe.video) :
        /\ (p - 1) % probe.interval = 0
        /\ (p - 1) \div probe.interval < probe.max_frames}

(* C33: video_fingerprint votes over at most max_frames sampled frames, sets
   output bit i iff at least half of them have bit i set (a tie sets the bit),
   and returns None iff no frame could be decoded. *)
MajorityVoteFingerprint ==
    probe.called = "fingerprint"
    => /\ Cardinality(ProbeSampled) <= probe.max_frames
       /\ IsNone(probe.fp) <=> Len(probe.video) = 0
       /\ ~IsNone(probe.fp)
             => /\ Len(Val(probe.fp)) = HashBits
                /\ \A i \in 1..HashBits :
                     Val(probe.fp)[i] = 1
                        <=> 2 * Cardinality({p \in ProbeSampled : probe.video[p][i] = 1})
                               >= Cardinality(ProbeSampled)

TieSetsBitWitness ==
    /\ probe.called = "fingerprint"
    /\ Len(probe.video) > probe.max_frames * probe.interval
    /\ Cardinality(ProbeSampled) = 2
    /\ Cardinality({p \in ProbeSampled : probe.video[p][1] = 1}) = 1
    /\ ~IsNone(probe.fp)
    /\ Val(probe.fp)[1] = 1

(* C34: with guardrails enabled, whatever the interleaving of the requests of a
   campaign, its committed counters stay within the caps: llm never exceeds
   MAX_LLM_CALLS and usd never exceeds USD_DAY_CAP. *)
CommittedWithinCaps ==
    settings.BUDGET_GUARDRAILS_ENABLED
    => \A c \in DOMAIN r_cost :
          /\ r_cost[c].llm <= MAX_LLM_CALLS
          /\ r_cost[c].usd <= USD_DAY_CAP

ApprovedResult(q) ==
    /\ q.resp.kind = "response"
    /\ ~q.resp.duplicated
    /\ Val(q.resp.alignment).aproved

(* C35: for any URL at most one request returns a non-duplicate approved
   result, requests that started concurrently included: of two requests for
   the same URL, never both are approved. *)
AtMostOneApprovalPerUrl ==
    \A r1, r2 \in DOMAIN req :
        (r1 # r2 /\ req[r1].video_url = req[r2].video_url)
        => ~(ApprovedResult(req[r1]) /\ ApprovedResult(req[r2]))

Commits(q) == CountEv(q.log, "commit")

(* C36: with guardrails enabled a request commits at most once, and what it
   commits is what its response reports: a response with llm_calls >= 1 has
   been committed, a response with llm_calls = 0 has committed nothing. *)
CommitMatchesReportedCost ==
    \A r \in DOMAIN req :
        settings.BUDGET_GUARDRAILS_ENABLED
        => /\ Commits(req[r]) <= 1
           /\ req[r].resp.kind = "response"
                 => /\ req[r].resp.cost.llm_calls >= 1 => Commits(req[r]) = 1
                    /\ req[r].resp.cost.llm_calls = 0 => Commits(req[r]) = 0

ModelCalls == {"asr", "summarize", "judge"}

(* C37: with guardrails enabled no external model call (transcription,
   summarization, judgment) is made before the budget decision of the request,
   and a request that ends as a duplicate or as a degraded result has made
   none. *)
NoModelCallBeforeDecision ==
    \A r \in DOMAIN req :
        LET lg == req[r].log IN
        settings.BUDGET_GUARDRAILS_ENABLED
        => /\ \A a \in 1..Len(lg) :
                 lg[a].ev \in ModelCalls => \E b \in 1..(a - 1) : lg[b].ev = "decide"
           /\ (req[r].resp.kind = "response"
                  /\ (req[r].resp.duplicated \/ req[r].resp.cost.degraded_path))
                 => \A a \in 1..Len(lg) : lg[a].ev \notin ModelCalls

(* C38: every durable row persisted by evaluate belongs to a campaign that has
   a retention marker (the end_date of the request), so that the cleaner
   comes to delete it once that date has passed. *)
PersistedRowsHaveRetentionMarker ==
    \A row \in pg_video_features :
        pg_campaign_retention[row.campaign_id] # "none"

(* C39: under any interleaving of a sweep with evaluate requests, when the sweep
   finishes an expired campaign (deletes its retention marker) the durable
   tier holds no row of that campaign, and no step deletes a row of a campaign
   that is not expired. *)
SweepNeedsNoLock ==
    [][\A c \in DOMAIN pg_campaign_retention :
         /\ (pg_campaign_retention[c] = "expired" /\ pg_campaign_retention'[c] = "none")
               => RowsOf(pg_video_features', c) = {}
         /\ pg_campaign_retention[c] # "expired"
               => RowsOf(pg_video_features, c) \subseteq RowsOf(pg_video_features', c)]_vars

(* C40: a video enters a campaign's fast-tier indexes (url-to-video_id mapping
   or recency index) only by the persistence step of a request of that same
   campaign whose video was approved, or by the write-back of a durable row of
   that same campaign; evaluating in one campaign a URL whose durable row
   belongs to another adds nothing to the indexes of the first. *)
IndexesHoldOwnApprovalsOnly ==
    [][\A c \in DOMAIN r_url2vid :
         \A vid \in (Range(r_vids'[c]) \ Range(r_vids[c]))
                       \cup {r_url2vid'[c][h] : h \in DOMAIN r_url2vid'[c] \ DOMAIN r_url2vid[c]} :
            \E r \in DOMAIN req :
                /\ req'[r] # req[r]
                /\ req[r].campaign_id = c
                /\ sha1(req[r].video_url) = vid
                /\ \/ req[r].pc = "persist" /\ ShouldPersist(req[r])
                   \/ /\ req[r].pc = "repopulate"
                      /\ Val(req[r].cached_base).campaign_id = c]_vars

====
